---- MODULE Spec2Model ----
(***************************************************************************)
(* A model of the ec65 6502 emulator core: the flat 64 KiB memory          *)
(* (src/src/memory.rs), the CPU interpreter (src/src/cpu.rs), the snapshot *)
(* codec (src/src/snapshots.rs) and the Emulator and its request handlers  *)
(* (src/src/server.rs).                                                    *)
(*                                                                         *)
(* Conventions.                                                            *)
(*  - u8 values are 0..255 and u16 values are 0..65535; wrapping_add and   *)
(*    wrapping_sub are written with % 256 / % 65536.                       *)
(*  - A plain Rust `+` or `-` on u8/u16/i8 panics on overflow when the     *)
(*    crate is built with overflow checks (the dev profile) and wraps      *)
(*    otherwise (the release profile).  The variable overflow_checks       *)
(*    holds the profile of the build; both are explored.                   *)
(*  - panic! unwinds the calling thread: the variable panicked records it. *)
(*  - Memory is the array data: [u8; 65536].  It is kept as a function     *)
(*    from the addresses of its non-zero cells to their values; a cell     *)
(*    outside the domain holds 0 (Memory::new zeroes the array).           *)
(*  - A Rust `while` loop whose trip count can reach 65536 is unrolled by  *)
(*    nested doubling (the *_while operators): the loop body is applied    *)
(*    until the loop condition fails, exactly as the loop does.            *)
(***************************************************************************)
EXTENDS Integers, Sequences, FiniteSets, TLC

VARIABLES
    cpu,              \* CPU { a, x, y, pc, sp, status, cycles, halted }
    memory,           \* Memory { data } of the running core
    panicked,         \* a panic! has unwound the thread driving the core
    overflow_checks,  \* build profile: TRUE = dev (checked arithmetic)
    lastOp,           \* the operation that produced the current state
    fetched,          \* the opcode byte fetched by the last step (-1: none)
    snapshot,         \* the EmulatorSnapshot taken last, or NoSnapshot
    origin,           \* the core state the snapshot was created from
    restore_result,   \* Result of the last restore into the running core
    cpu2,             \* CPU of a second core, constructed fresh for a restore
    memory2,          \* Memory of the second core
    panicked2,        \* a panic! has unwound the thread driving the second core
    restore_result2,  \* Result of the restore into the second core
    steps2,           \* step calls on the second core since its restore (-1: not restored)
    buffer,           \* codec: the memory image handed to compress_memory
    stream,           \* codec: the byte stream handed to decompress_memory
    stream_kind,      \* codec: where stream comes from (encoder, raw dump, damaged)
    decoded,          \* codec: Result of decompress_memory(stream)
    stack_log,        \* direct CPU::push / CPU::pop calls made so far: [op, value, sp before]
    execution,        \* the last call of the Emulator's host API: arguments and report
    emulator_cycles,  \* Emulator.cycles, the counter the host wrapper keeps beside its CPU
    server            \* the HTTP server: the emulators mutex, each request's place in
                      \* its handler, the snapshot store

coreVars == <<cpu, memory, panicked, fetched>>
snapVars == <<snapshot, origin, restore_result>>
core2Vars == <<cpu2, memory2, panicked2, restore_result2, steps2>>
codecVars == <<buffer, stream, stream_kind, decoded>>
vars == <<coreVars, overflow_checks, lastOp, snapVars, core2Vars, codecVars, stack_log,
         execution, emulator_cycles, server>>

----------------------------------------------------------------------------
(* Machine integers *)

U8 == 0..255

\* Rust `&`, `|`, `^` on unsigned integers.
RECURSIVE bit_and(_, _)
bit_and(m, n) ==
    IF m = 0 \/ n = 0 THEN 0
    ELSE (m % 2) * (n % 2) + 2 * bit_and(m \div 2, n \div 2)

RECURSIVE bit_or(_, _)
bit_or(m, n) ==
    IF m = 0 THEN n
    ELSE IF n = 0 THEN m
    ELSE (IF m % 2 = 1 \/ n % 2 = 1 THEN 1 ELSE 0) + 2 * bit_or(m \div 2, n \div 2)

RECURSIVE bit_xor(_, _)
bit_xor(m, n) ==
    IF m = 0 THEN n
    ELSE IF n = 0 THEN m
    ELSE ((m + n) % 2) + 2 * bit_xor(m \div 2, n \div 2)

\* `v as i8`: reinterpret a byte as a signed two's-complement value.
as_i8(v) == IF v >= 128 THEN v - 256 ELSE v

----------------------------------------------------------------------------
(* src/src/memory.rs *)

MEMORY_SIZE == 65536

Memory_new == [address \in {} |-> 0]

Memory_read(mem, address) ==
    IF address \in DOMAIN mem THEN mem[address] ELSE 0

Memory_write(mem, address, value) ==
    IF value = 0
    THEN [ad \in (DOMAIN mem) \ {address} |-> mem[ad]]
    ELSE [ad \in (DOMAIN mem) \cup {address} |-> IF ad = address THEN value ELSE mem[ad]]

\* Variant of Memory_load_rom that carries on at address 0 past 0xFFFF.
Memory_load_rom_wrapping(mem, data, start_address) ==
    LET cell(ad) == IF (ad - start_address) % 65536 < Len(data)
                    THEN data[((ad - start_address) % 65536) + 1]
                    ELSE Memory_read(mem, ad)
        touched == (DOMAIN mem) \cup {(start_address + k) % 65536 : k \in 0..(Len(data) - 1)}
    IN  [ad \in {t \in touched : cell(t) # 0} |-> cell(ad)]

\* load_rom: end = min(start + len, 65536); data[..end - start] is copied to
\* start..end.
Memory_load_rom(mem, data, start_address) ==
    LET start == start_address
        end == IF start + Len(data) < 65536 THEN start + Len(data) ELSE 65536
        len == end - start
        cell(ad) == IF ad >= start /\ ad < end THEN data[ad - start + 1]
                    ELSE Memory_read(mem, ad)
        touched == (DOMAIN mem) \cup (start..(end - 1))
    IN  [ad \in {t \in touched : cell(t) # 0} |-> cell(ad)]

Memory_read_u16(mem, address) ==
    LET low == Memory_read(mem, address)
        high == Memory_read(mem, (address + 1) % 65536)
    IN  high * 256 + low

\* Variant of Memory_write_u16 that drops the high byte at 0xFFFF.
Memory_write_u16_truncating(mem, address, value) ==
    IF address = 65535 THEN Memory_write(mem, address, value % 256)
    ELSE Memory_write(Memory_write(mem, address, value % 256), address + 1, value \div 256)

Memory_write_u16(mem, address, value) ==
    Memory_write(Memory_write(mem, address, value % 256),
                 (address + 1) % 65536, value \div 256)

----------------------------------------------------------------------------
(* src/src/cpu.rs: status flags *)

CARRY_FLAG == 1
ZERO_FLAG == 2
INTERRUPT_DISABLE == 4
DECIMAL_MODE == 8
BREAK_COMMAND == 16
UNUSED_FLAG == 32
OVERFLOW_FLAG == 64
NEGATIVE_FLAG == 128

CPU_new ==
    [a |-> 0, x |-> 0, y |-> 0, pc |-> 0, sp |-> 253,
     status |-> bit_or(UNUSED_FLAG, INTERRUPT_DISABLE),
     cycles |-> 0, halted |-> FALSE]

\* Variant of CPU_reset that leaves the halted latch as it was.
CPU_reset_keeping_halted(c, mem) ==
    [a |-> 0, x |-> 0, y |-> 0,
     pc |-> Memory_read(mem, 65533) * 256 + Memory_read(mem, 65532), sp |-> 253,
     status |-> bit_or(UNUSED_FLAG, INTERRUPT_DISABLE),
     cycles |-> 0, halted |-> c.halted]

CPU_reset(c, mem) ==
    LET low == Memory_read(mem, 65532)
        high == Memory_read(mem, 65533)
    IN  [a |-> 0, x |-> 0, y |-> 0, pc |-> high * 256 + low, sp |-> 253,
         status |-> bit_or(UNUSED_FLAG, INTERRUPT_DISABLE),
         cycles |-> 0, halted |-> FALSE]

set_flag(status, flag, value) ==
    IF value THEN bit_or(status, flag) ELSE bit_and(status, 255 - flag)

get_flag(status, flag) == bit_and(status, flag) # 0

\* Variant of update_zero_and_negative_flags that leaves N as it was.
update_zero_flag_only(status, value) ==
    set_flag(status, ZERO_FLAG, value = 0)

update_zero_and_negative_flags(status, value) ==
    set_flag(set_flag(status, ZERO_FLAG, value = 0),
             NEGATIVE_FLAG, bit_and(value, 128) # 0)

----------------------------------------------------------------------------
(* src/src/cpu.rs: addressing modes.  c.pc is the address of the operand.  *)
(* Each returns the effective address, the PC after the operand and        *)
(* whether the computation panicked (checked `self.pc + 1` at 0xFFFF).     *)

Res(c, mem) == [cpu |-> c, memory |-> mem, panic |-> FALSE]
Fault(c, mem) == [cpu |-> c, memory |-> mem, panic |-> TRUE]

\* let low = memory.read(self.pc); let high = memory.read(self.pc + 1);
\* `self.pc + 1` is a checked u16 addition.
operand_word(c, mem) ==
    [low |-> Memory_read(mem, c.pc),
     high |-> Memory_read(mem, (c.pc + 1) % 65536),
     panic |-> (c.pc + 1 > 65535) /\ overflow_checks]

operand_address(mode, c, mem) ==
    LET opb == Memory_read(mem, c.pc)
        pc1 == (c.pc + 1) % 65536
        pc2 == (c.pc + 2) % 65536
        w == operand_word(c, mem)
        word == w.high * 256 + w.low
        abs(ad) == IF w.panic THEN [addr |-> 0, pc |-> c.pc, panic |-> TRUE]
                   ELSE [addr |-> ad, pc |-> pc2, panic |-> FALSE]
        \* (zp,X): ptr is a u16, so ptr.wrapping_add(1) is ptr + 1 mod 65536
        ptrx == (opb + c.x) % 256
        ptry == opb
        deref(ptr) == Memory_read(mem, (ptr + 1) % 65536) * 256 + Memory_read(mem, ptr)
    IN  CASE mode = "Immediate" -> [addr |-> c.pc, pc |-> pc1, panic |-> FALSE]
          [] mode = "ZeroPage" -> [addr |-> opb, pc |-> pc1, panic |-> FALSE]
          [] mode = "ZeroPageX" -> [addr |-> (opb + c.x) % 256, pc |-> pc1, panic |-> FALSE]
          [] mode = "ZeroPageY" -> [addr |-> (opb + c.y) % 256, pc |-> pc1, panic |-> FALSE]
          [] mode = "Absolute" -> abs(word)
          [] mode = "AbsoluteX" -> abs((word + c.x) % 65536)
          [] mode = "AbsoluteY" -> abs((word + c.y) % 65536)
          [] mode = "IndexedIndirect" ->
                [addr |-> deref(ptrx), pc |-> pc1, panic |-> FALSE]
          [] mode = "IndirectIndexed" ->
                [addr |-> (deref(ptry) + c.y) % 65536, pc |-> pc1, panic |-> FALSE]

\* read_immediate .. read_absolute_y and the inlined indirect reads
read_operand(mode, c, mem) ==
    LET ea == operand_address(mode, c, mem)
    IN  [value |-> Memory_read(mem, ea.addr), pc |-> ea.pc, panic |-> ea.panic]

----------------------------------------------------------------------------
(* src/src/cpu.rs: instructions.  Each takes the CPU after the opcode      *)
(* fetch and returns [cpu, memory, panic].                                 *)

lda(c, mem, mode) ==
    LET r == read_operand(mode, c, mem)
    IN  IF r.panic THEN Fault(c, mem)
        ELSE Res([c EXCEPT !.pc = r.pc, !.a = r.value,
                           !.status = update_zero_and_negative_flags(@, r.value)], mem)

ldx(c, mem, mode) ==
    LET r == read_operand(mode, c, mem)
    IN  IF r.panic THEN Fault(c, mem)
        ELSE Res([c EXCEPT !.pc = r.pc, !.x = r.value,
                           !.status = update_zero_and_negative_flags(@, r.value)], mem)

ldy(c, mem, mode) ==
    LET r == read_operand(mode, c, mem)
    IN  IF r.panic THEN Fault(c, mem)
        ELSE Res([c EXCEPT !.pc = r.pc, !.y = r.value,
                           !.status = update_zero_and_negative_flags(@, r.value)], mem)

sta(c, mem, mode) ==
    LET ea == operand_address(mode, c, mem)
    IN  IF ea.panic THEN Fault(c, mem)
        ELSE Res([c EXCEPT !.pc = ea.pc], Memory_write(mem, ea.addr, c.a))

\* Variant of brk that pushes the return address and P, as an interrupt
\* entry would.
brk_pushing_state(c, mem) ==
    LET return_addr == (c.pc + 1) % 65536
        m1 == Memory_write(mem, 256 + c.sp, return_addr \div 256)
        m2 == Memory_write(m1, 256 + ((c.sp - 1) % 256), return_addr % 256)
        m3 == Memory_write(m2, 256 + ((c.sp - 2) % 256), c.status)
    IN  Res([c EXCEPT !.halted = TRUE, !.sp = (c.sp - 3) % 256], m3)

\* Variant of brk that loads PC from the vector at 0xFFFE.
brk_through_vector(c, mem) ==
    Res([c EXCEPT !.halted = TRUE,
                  !.pc = Memory_read(mem, 65535) * 256 + Memory_read(mem, 65534)], mem)

\* Variant of brk that also sets the B flag.
brk_setting_break(c, mem) ==
    Res([c EXCEPT !.halted = TRUE, !.status = set_flag(@, BREAK_COMMAND, TRUE)], mem)

brk(c, mem) == Res([c EXCEPT !.halted = TRUE], mem)

nop(c, mem) == Res(c, mem)

\* Variant of adc whose overflow looks at the accumulator's sign only.
adc_overflow_from_accumulator(c, value) ==
    LET carry == IF get_flag(c.status, CARRY_FLAG) THEN 1 ELSE 0
        result == c.a + value + carry
        r8 == result % 256
        overflow == bit_and(bit_xor(c.a, r8), 128) # 0
        st1 == set_flag(c.status, CARRY_FLAG, result > 255)
        st2 == set_flag(st1, OVERFLOW_FLAG, overflow)
    IN  [c EXCEPT !.a = r8, !.status = update_zero_and_negative_flags(st2, r8)]

\* Variant of adc whose overflow looks at the operand's sign only.
adc_overflow_from_operand(c, value) ==
    LET carry == IF get_flag(c.status, CARRY_FLAG) THEN 1 ELSE 0
        result == c.a + value + carry
        r8 == result % 256
        overflow == bit_and(bit_xor(value, r8), 128) # 0
        st1 == set_flag(c.status, CARRY_FLAG, result > 255)
        st2 == set_flag(st1, OVERFLOW_FLAG, overflow)
    IN  [c EXCEPT !.a = r8, !.status = update_zero_and_negative_flags(st2, r8)]

adc(c, value) ==
    LET carry == IF get_flag(c.status, CARRY_FLAG) THEN 1 ELSE 0
        result == c.a + value + carry
        r8 == result % 256
        overflow == bit_and(bit_and(bit_xor(c.a, r8), bit_xor(value, r8)), 128) # 0
        st1 == set_flag(c.status, CARRY_FLAG, result > 255)
        st2 == set_flag(st1, OVERFLOW_FLAG, overflow)
    IN  [c EXCEPT !.a = r8, !.status = update_zero_and_negative_flags(st2, r8)]

adc_mode(c, mem, mode) ==
    LET r == read_operand(mode, c, mem)
    IN  IF r.panic THEN Fault(c, mem)
        ELSE Res(adc([c EXCEPT !.pc = r.pc], r.value), mem)

\* Variant of sbc that sets the carry only when the difference is positive.
sbc_carry_when_positive(c, value) ==
    LET carry == IF get_flag(c.status, CARRY_FLAG) THEN 0 ELSE 1
        result == c.a - value - carry
        r8 == result % 256
        overflow == bit_and(bit_and(bit_xor(c.a, r8), bit_xor(c.a, value)), 128) # 0
        st1 == set_flag(c.status, CARRY_FLAG, result > 0)
        st2 == set_flag(st1, OVERFLOW_FLAG, overflow)
    IN  [c EXCEPT !.a = r8, !.status = update_zero_and_negative_flags(st2, r8)]

\* result is an i16 in -256..255; `as u8` and the bit tests see its
\* two's-complement low byte.
sbc(c, value) ==
    LET carry == IF get_flag(c.status, CARRY_FLAG) THEN 0 ELSE 1
        result == c.a - value - carry
        r8 == result % 256
        overflow == bit_and(bit_and(bit_xor(c.a, r8), bit_xor(c.a, value)), 128) # 0
        st1 == set_flag(c.status, CARRY_FLAG, result >= 0)
        st2 == set_flag(st1, OVERFLOW_FLAG, overflow)
    IN  [c EXCEPT !.a = r8, !.status = update_zero_and_negative_flags(st2, r8)]

sbc_mode(c, mem, mode) ==
    LET r == read_operand(mode, c, mem)
    IN  IF r.panic THEN Fault(c, mem)
        ELSE Res(sbc([c EXCEPT !.pc = r.pc], r.value), mem)

\* Variant of compare whose carry needs the register strictly above the operand.
compare_strictly_greater(c, register, value) ==
    LET result == (register - value) % 256
        st1 == set_flag(c.status, CARRY_FLAG, register > value)
    IN  [c EXCEPT !.status = update_zero_and_negative_flags(st1, result)]

compare(c, register, value) ==
    LET result == (register - value) % 256
        st1 == set_flag(c.status, CARRY_FLAG, register >= value)
    IN  [c EXCEPT !.status = update_zero_and_negative_flags(st1, result)]

cmp(c, mem, mode) ==
    LET r == read_operand(mode, c, mem)
    IN  IF r.panic THEN Fault(c, mem)
        ELSE Res(compare([c EXCEPT !.pc = r.pc], c.a, r.value), mem)

cpx(c, mem, mode) ==
    LET r == read_operand(mode, c, mem)
    IN  IF r.panic THEN Fault(c, mem)
        ELSE Res(compare([c EXCEPT !.pc = r.pc], c.x, r.value), mem)

cpy(c, mem, mode) ==
    LET r == read_operand(mode, c, mem)
    IN  IF r.panic THEN Fault(c, mem)
        ELSE Res(compare([c EXCEPT !.pc = r.pc], c.y, r.value), mem)

and_mode(c, mem, mode) ==
    LET r == read_operand(mode, c, mem)
        v == bit_and(c.a, r.value)
    IN  IF r.panic THEN Fault(c, mem)
        ELSE Res([c EXCEPT !.pc = r.pc, !.a = v,
                           !.status = update_zero_and_negative_flags(@, v)], mem)

ora_mode(c, mem, mode) ==
    LET r == read_operand(mode, c, mem)
        v == bit_or(c.a, r.value)
    IN  IF r.panic THEN Fault(c, mem)
        ELSE Res([c EXCEPT !.pc = r.pc, !.a = v,
                           !.status = update_zero_and_negative_flags(@, v)], mem)

eor_mode(c, mem, mode) ==
    LET r == read_operand(mode, c, mem)
        v == bit_xor(c.a, r.value)
    IN  IF r.panic THEN Fault(c, mem)
        ELSE Res([c EXCEPT !.pc = r.pc, !.a = v,
                           !.status = update_zero_and_negative_flags(@, v)], mem)

inc(c, mem, mode) ==
    LET ea == operand_address(mode, c, mem)
        value == (Memory_read(mem, ea.addr) + 1) % 256
    IN  IF ea.panic THEN Fault(c, mem)
        ELSE Res([c EXCEPT !.pc = ea.pc,
                           !.status = update_zero_and_negative_flags(@, value)],
                 Memory_write(mem, ea.addr, value))

dec(c, mem, mode) ==
    LET ea == operand_address(mode, c, mem)
        value == (Memory_read(mem, ea.addr) - 1) % 256
    IN  IF ea.panic THEN Fault(c, mem)
        ELSE Res([c EXCEPT !.pc = ea.pc,
                           !.status = update_zero_and_negative_flags(@, value)],
                 Memory_write(mem, ea.addr, value))

inx(c, mem) ==
    LET v == (c.x + 1) % 256
    IN  Res([c EXCEPT !.x = v, !.status = update_zero_and_negative_flags(@, v)], mem)

iny(c, mem) ==
    LET v == (c.y + 1) % 256
    IN  Res([c EXCEPT !.y = v, !.status = update_zero_and_negative_flags(@, v)], mem)

dex(c, mem) ==
    LET v == (c.x - 1) % 256
    IN  Res([c EXCEPT !.x = v, !.status = update_zero_and_negative_flags(@, v)], mem)

dey(c, mem) ==
    LET v == (c.y - 1) % 256
    IN  Res([c EXCEPT !.y = v, !.status = update_zero_and_negative_flags(@, v)], mem)

tax(c, mem) ==
    Res([c EXCEPT !.x = c.a, !.status = update_zero_and_negative_flags(@, c.a)], mem)

tay(c, mem) ==
    Res([c EXCEPT !.y = c.a, !.status = update_zero_and_negative_flags(@, c.a)], mem)

txa(c, mem) ==
    Res([c EXCEPT !.a = c.x, !.status = update_zero_and_negative_flags(@, c.x)], mem)

tya(c, mem) ==
    Res([c EXCEPT !.a = c.y, !.status = update_zero_and_negative_flags(@, c.y)], mem)

tsx(c, mem) ==
    Res([c EXCEPT !.x = c.sp, !.status = update_zero_and_negative_flags(@, c.sp)], mem)

txs(c, mem) == Res([c EXCEPT !.sp = c.x], mem)

jmp_absolute(c, mem) ==
    LET w == operand_word(c, mem)
    IN  IF w.panic THEN Fault(c, mem)
        ELSE Res([c EXCEPT !.pc = w.high * 256 + w.low], mem)

\* Variant of jmp_indirect that always reads the high byte at ptr + 1.
jmp_indirect_across_pages(c, mem) ==
    LET w == operand_word(c, mem)
        ptr == w.high * 256 + w.low
        low == Memory_read(mem, ptr)
        high == Memory_read(mem, (ptr + 1) % 65536)
    IN  IF w.panic THEN Fault(c, mem)
        ELSE Res([c EXCEPT !.pc = high * 256 + low], mem)

\* ptr + 1 is taken only when the low byte of ptr is not 0xFF: it cannot overflow.
jmp_indirect(c, mem) ==
    LET w == operand_word(c, mem)
        ptr == w.high * 256 + w.low
        low == Memory_read(mem, ptr)
        high == IF ptr % 256 = 255
                THEN Memory_read(mem, ptr - (ptr % 256))
                ELSE Memory_read(mem, ptr + 1)
    IN  IF w.panic THEN Fault(c, mem)
        ELSE Res([c EXCEPT !.pc = high * 256 + low], mem)

\* push: memory.write(0x100 + sp, value); sp = sp.wrapping_sub(1)
push(c, mem, value) ==
    [cpu |-> [c EXCEPT !.sp = (c.sp - 1) % 256],
     memory |-> Memory_write(mem, 256 + c.sp, value)]

\* Variant of pop that reads at SP without the stack page's base.
pop_from_zero_page(c, mem) ==
    LET sp1 == (c.sp + 1) % 256
    IN  [cpu |-> [c EXCEPT !.sp = sp1], value |-> Memory_read(mem, sp1)]

\* pop: sp = sp.wrapping_add(1); memory.read(0x100 + sp)
pop(c, mem) ==
    LET sp1 == (c.sp + 1) % 256
    IN  [cpu |-> [c EXCEPT !.sp = sp1], value |-> Memory_read(mem, 256 + sp1)]

\* Variant of push_u16 that pushes the low byte first.
push_u16_low_first(c, mem, value) ==
    LET p1 == push(c, mem, value % 256)
    IN  push(p1.cpu, p1.memory, value \div 256)

push_u16(c, mem, value) ==
    LET p1 == push(c, mem, value \div 256)
    IN  push(p1.cpu, p1.memory, value % 256)

pop_u16(c, mem) ==
    LET p1 == pop(c, mem)
        p2 == pop(p1.cpu, mem)
    IN  [cpu |-> p2.cpu, value |-> p2.value * 256 + p1.value]

\* The return address is pushed before the operand is read, so the pushes
\* have happened when `self.pc + 1` panics.
jsr(c, mem) ==
    LET return_addr == (c.pc + 1) % 65536
        p == push_u16(c, mem, return_addr)
        w == operand_word(p.cpu, p.memory)
    IN  IF w.panic THEN Fault(p.cpu, p.memory)
        ELSE Res([p.cpu EXCEPT !.pc = w.high * 256 + w.low], p.memory)

rts(c, mem) ==
    LET p == pop_u16(c, mem)
    IN  Res([p.cpu EXCEPT !.pc = (p.value + 1) % 65536], mem)

clc(c, mem) == Res([c EXCEPT !.status = set_flag(@, CARRY_FLAG, FALSE)], mem)
sec(c, mem) == Res([c EXCEPT !.status = set_flag(@, CARRY_FLAG, TRUE)], mem)
cli(c, mem) == Res([c EXCEPT !.status = set_flag(@, INTERRUPT_DISABLE, FALSE)], mem)
sei(c, mem) == Res([c EXCEPT !.status = set_flag(@, INTERRUPT_DISABLE, TRUE)], mem)
cld(c, mem) == Res([c EXCEPT !.status = set_flag(@, DECIMAL_MODE, FALSE)], mem)
sed(c, mem) == Res([c EXCEPT !.status = set_flag(@, DECIMAL_MODE, TRUE)], mem)
clv(c, mem) == Res([c EXCEPT !.status = set_flag(@, OVERFLOW_FLAG, FALSE)], mem)

\* offset is an i8.  For offset = -128 the negation `-offset` overflows i8:
\* it panics under overflow checks and otherwise yields -128, which
\* `as u16` sign-extends to 0xFF80.
branch_if(c, mem, condition) ==
    LET offset == as_i8(Memory_read(mem, c.pc))
        pc1 == (c.pc + 1) % 65536
        negated == IF offset = -128 THEN 65408 ELSE -offset
        target == IF offset >= 0 THEN (pc1 + offset) % 65536
                  ELSE (pc1 - negated) % 65536
    IN  IF ~condition THEN Res([c EXCEPT !.pc = pc1], mem)
        ELSE IF offset = -128 /\ overflow_checks THEN Fault([c EXCEPT !.pc = pc1], mem)
        ELSE Res([c EXCEPT !.pc = target], mem)

bcc(c, mem) == branch_if(c, mem, ~get_flag(c.status, CARRY_FLAG))
bcs(c, mem) == branch_if(c, mem, get_flag(c.status, CARRY_FLAG))
beq(c, mem) == branch_if(c, mem, get_flag(c.status, ZERO_FLAG))
bne(c, mem) == branch_if(c, mem, ~get_flag(c.status, ZERO_FLAG))
bmi(c, mem) == branch_if(c, mem, get_flag(c.status, NEGATIVE_FLAG))
bpl(c, mem) == branch_if(c, mem, ~get_flag(c.status, NEGATIVE_FLAG))
bvc(c, mem) == branch_if(c, mem, ~get_flag(c.status, OVERFLOW_FLAG))
bvs(c, mem) == branch_if(c, mem, get_flag(c.status, OVERFLOW_FLAG))

----------------------------------------------------------------------------
(* src/src/cpu.rs: CPU::step *)

\* The opcodes the match in step names; every other byte reaches its `_` arm.
Opcodes ==
    {\hA9, \hA5, \hB5, \hAD, \hBD, \hB9, \hA1, \hB1, \hA2, \hA6, \hB6, \hAE,
     \hBE, \hA0, \hA4, \hB4, \hAC, \hBC, \h85, \h95, \h8D, \h9D, \h99, \h81,
     \h91, \h69, \h65, \h75, \h6D, \h7D, \h79, \h61, \h71, \hE9, \hE5, \hF5,
     \hED, \hFD, \hF9, \hE1, \hF1, \hC9, \hC5, \hD5, \hCD, \hDD, \hD9, \hC1,
     \hD1, \hE0, \hE4, \hEC, \hC0, \hC4, \hCC, \h29, \h25, \h35, \h2D, \h3D,
     \h39, \h21, \h31, \h09, \h05, \h15, \h0D, \h1D, \h19, \h01, \h11, \h49,
     \h45, \h55, \h4D, \h5D, \h59, \h41, \h51, \hE6, \hF6, \hEE, \hFE, \hC6,
     \hD6, \hCE, \hDE, \hE8, \hC8, \hCA, \h88, \hAA, \hA8, \h8A, \h98, \hBA,
     \h9A, \h4C, \h6C, \h20, \h60, \h00, \h18, \h38, \h58, \h78, \hD8, \hF8,
     \hB8, \h90, \hB0, \hF0, \hD0, \h30, \h10, \h50, \h70, \hEA}

\* The match on the opcode.  c is the CPU after the opcode fetch.  The `_`
\* arm is panic!("Unknown opcode ...").
execute(opcode, c, mem) ==
    CASE opcode = \hA9 -> lda(c, mem, "Immediate")
      [] opcode = \hA5 -> lda(c, mem, "ZeroPage")
      [] opcode = \hB5 -> lda(c, mem, "ZeroPageX")
      [] opcode = \hAD -> lda(c, mem, "Absolute")
      [] opcode = \hBD -> lda(c, mem, "AbsoluteX")
      [] opcode = \hB9 -> lda(c, mem, "AbsoluteY")
      [] opcode = \hA1 -> lda(c, mem, "IndexedIndirect")
      [] opcode = \hB1 -> lda(c, mem, "IndirectIndexed")
      [] opcode = \hA2 -> ldx(c, mem, "Immediate")
      [] opcode = \hA6 -> ldx(c, mem, "ZeroPage")
      [] opcode = \hB6 -> ldx(c, mem, "ZeroPageY")
      [] opcode = \hAE -> ldx(c, mem, "Absolute")
      [] opcode = \hBE -> ldx(c, mem, "AbsoluteY")
      [] opcode = \hA0 -> ldy(c, mem, "Immediate")
      [] opcode = \hA4 -> ldy(c, mem, "ZeroPage")
      [] opcode = \hB4 -> ldy(c, mem, "ZeroPageX")
      [] opcode = \hAC -> ldy(c, mem, "Absolute")
      [] opcode = \hBC -> ldy(c, mem, "AbsoluteX")
      [] opcode = \h85 -> sta(c, mem, "ZeroPage")
      [] opcode = \h95 -> sta(c, mem, "ZeroPageX")
      [] opcode = \h8D -> sta(c, mem, "Absolute")
      [] opcode = \h9D -> sta(c, mem, "AbsoluteX")
      [] opcode = \h99 -> sta(c, mem, "AbsoluteY")
      [] opcode = \h81 -> sta(c, mem, "IndexedIndirect")
      [] opcode = \h91 -> sta(c, mem, "IndirectIndexed")
      [] opcode = \h69 -> adc_mode(c, mem, "Immediate")
      [] opcode = \h65 -> adc_mode(c, mem, "ZeroPage")
      [] opcode = \h75 -> adc_mode(c, mem, "ZeroPageX")
      [] opcode = \h6D -> adc_mode(c, mem, "Absolute")
      [] opcode = \h7D -> adc_mode(c, mem, "AbsoluteX")
      [] opcode = \h79 -> adc_mode(c, mem, "AbsoluteY")
      [] opcode = \h61 -> adc_mode(c, mem, "IndexedIndirect")
      [] opcode = \h71 -> adc_mode(c, mem, "IndirectIndexed")
      [] opcode = \hE9 -> sbc_mode(c, mem, "Immediate")
      [] opcode = \hE5 -> sbc_mode(c, mem, "ZeroPage")
      [] opcode = \hF5 -> sbc_mode(c, mem, "ZeroPageX")
      [] opcode = \hED -> sbc_mode(c, mem, "Absolute")
      [] opcode = \hFD -> sbc_mode(c, mem, "AbsoluteX")
      [] opcode = \hF9 -> sbc_mode(c, mem, "AbsoluteY")
      [] opcode = \hE1 -> sbc_mode(c, mem, "IndexedIndirect")
      [] opcode = \hF1 -> sbc_mode(c, mem, "IndirectIndexed")
      [] opcode = \hC9 -> cmp(c, mem, "Immediate")
      [] opcode = \hC5 -> cmp(c, mem, "ZeroPage")
      [] opcode = \hD5 -> cmp(c, mem, "ZeroPageX")
      [] opcode = \hCD -> cmp(c, mem, "Absolute")
      [] opcode = \hDD -> cmp(c, mem, "AbsoluteX")
      [] opcode = \hD9 -> cmp(c, mem, "AbsoluteY")
      [] opcode = \hC1 -> cmp(c, mem, "IndexedIndirect")
      [] opcode = \hD1 -> cmp(c, mem, "IndirectIndexed")
      [] opcode = \hE0 -> cpx(c, mem, "Immediate")
      [] opcode = \hE4 -> cpx(c, mem, "ZeroPage")
      [] opcode = \hEC -> cpx(c, mem, "Absolute")
      [] opcode = \hC0 -> cpy(c, mem, "Immediate")
      [] opcode = \hC4 -> cpy(c, mem, "ZeroPage")
      [] opcode = \hCC -> cpy(c, mem, "Absolute")
      [] opcode = \h29 -> and_mode(c, mem, "Immediate")
      [] opcode = \h25 -> and_mode(c, mem, "ZeroPage")
      [] opcode = \h35 -> and_mode(c, mem, "ZeroPageX")
      [] opcode = \h2D -> and_mode(c, mem, "Absolute")
      [] opcode = \h3D -> and_mode(c, mem, "AbsoluteX")
      [] opcode = \h39 -> and_mode(c, mem, "AbsoluteY")
      [] opcode = \h21 -> and_mode(c, mem, "IndexedIndirect")
      [] opcode = \h31 -> and_mode(c, mem, "IndirectIndexed")
      [] opcode = \h09 -> ora_mode(c, mem, "Immediate")
      [] opcode = \h05 -> ora_mode(c, mem, "ZeroPage")
      [] opcode = \h15 -> ora_mode(c, mem, "ZeroPageX")
      [] opcode = \h0D -> ora_mode(c, mem, "Absolute")
      [] opcode = \h1D -> ora_mode(c, mem, "AbsoluteX")
      [] opcode = \h19 -> ora_mode(c, mem, "AbsoluteY")
      [] opcode = \h01 -> ora_mode(c, mem, "IndexedIndirect")
      [] opcode = \h11 -> ora_mode(c, mem, "IndirectIndexed")
      [] opcode = \h49 -> eor_mode(c, mem, "Immediate")
      [] opcode = \h45 -> eor_mode(c, mem, "ZeroPage")
      [] opcode = \h55 -> eor_mode(c, mem, "ZeroPageX")
      [] opcode = \h4D -> eor_mode(c, mem, "Absolute")
      [] opcode = \h5D -> eor_mode(c, mem, "AbsoluteX")
      [] opcode = \h59 -> eor_mode(c, mem, "AbsoluteY")
      [] opcode = \h41 -> eor_mode(c, mem, "IndexedIndirect")
      [] opcode = \h51 -> eor_mode(c, mem, "IndirectIndexed")
      [] opcode = \hE6 -> inc(c, mem, "ZeroPage")
      [] opcode = \hF6 -> inc(c, mem, "ZeroPageX")
      [] opcode = \hEE -> inc(c, mem, "Absolute")
      [] opcode = \hFE -> inc(c, mem, "AbsoluteX")
      [] opcode = \hC6 -> dec(c, mem, "ZeroPage")
      [] opcode = \hD6 -> dec(c, mem, "ZeroPageX")
      [] opcode = \hCE -> dec(c, mem, "Absolute")
      [] opcode = \hDE -> dec(c, mem, "AbsoluteX")
      [] opcode = \hE8 -> inx(c, mem)
      [] opcode = \hC8 -> iny(c, mem)
      [] opcode = \hCA -> dex(c, mem)
      [] opcode = \h88 -> dey(c, mem)
      [] opcode = \hAA -> tax(c, mem)
      [] opcode = \hA8 -> tay(c, mem)
      [] opcode = \h8A -> txa(c, mem)
      [] opcode = \h98 -> tya(c, mem)
      [] opcode = \hBA -> tsx(c, mem)
      [] opcode = \h9A -> txs(c, mem)
      [] opcode = \h4C -> jmp_absolute(c, mem)
      [] opcode = \h6C -> jmp_indirect(c, mem)
      [] opcode = \h20 -> jsr(c, mem)
      [] opcode = \h60 -> rts(c, mem)
      [] opcode = \h00 -> brk(c, mem)
      [] opcode = \h18 -> clc(c, mem)
      [] opcode = \h38 -> sec(c, mem)
      [] opcode = \h58 -> cli(c, mem)
      [] opcode = \h78 -> sei(c, mem)
      [] opcode = \hD8 -> cld(c, mem)
      [] opcode = \hF8 -> sed(c, mem)
      [] opcode = \hB8 -> clv(c, mem)
      [] opcode = \h90 -> bcc(c, mem)
      [] opcode = \hB0 -> bcs(c, mem)
      [] opcode = \hF0 -> beq(c, mem)
      [] opcode = \hD0 -> bne(c, mem)
      [] opcode = \h30 -> bmi(c, mem)
      [] opcode = \h10 -> bpl(c, mem)
      [] opcode = \h50 -> bvc(c, mem)
      [] opcode = \h70 -> bvs(c, mem)
      [] opcode = \hEA -> nop(c, mem)
      [] OTHER -> Fault(c, mem)

\* Variant of count_cycle that does not count the instruction that halts.
count_cycle_unless_halted(r) ==
    IF r.panic \/ r.cpu.halted THEN r
    ELSE [r EXCEPT !.cpu.cycles = @ + 1]

\* Fetch, advance PC, dispatch; self.cycles += 1 is reached only when the
\* handler returned (cycles is a u64: its overflow is out of reach).
count_cycle(r) ==
    IF r.panic THEN r
    ELSE [r EXCEPT !.cpu.cycles = @ + 1]

fetch_execute(c, mem) ==
    count_cycle(execute(Memory_read(mem, c.pc),
                        [c EXCEPT !.pc = (c.pc + 1) % 65536], mem))

\* Variant of step without the `if self.halted { return; }` guard.
step_when_halted(c, mem) == fetch_execute(c, mem)

step(c, mem) ==
    IF c.halted THEN Res(c, mem)
    ELSE fetch_execute(c, mem)

\* n calls of step in a row; a panic ends the run.
RECURSIVE step_n(_, _)
step_n(r, n) ==
    IF n = 0 \/ r.panic THEN r
    ELSE step_n(step(r.cpu, r.memory), n - 1)

----------------------------------------------------------------------------
(* src/src/server.rs: impl Emulator *)

\* Variant of count_emulator_cycle that leaves Emulator.cycles alone.
count_no_emulator_cycle(s, cycles) ==
    [stepped |-> TRUE, cycles |-> cycles] @@ s

\* `self.cycles += 1; true` after self.cpu.step(..) has returned; a panic
\* inside the CPU's step unwinds past the increment.
count_emulator_cycle(s, cycles) ==
    [stepped |-> TRUE, cycles |-> IF s.panic THEN cycles ELSE cycles + 1] @@ s

\* Emulator::step: `if !self.cpu.is_halted() { self.cpu.step(..);
\* self.cycles += 1; true } else { false }`.  `stepped` is the value
\* returned, `cycles` the Emulator's own counter.
Emulator_step(r) ==
    IF r.cpu.halted
    THEN [cpu |-> r.cpu, memory |-> r.memory, panic |-> FALSE, stepped |-> FALSE,
          cycles |-> r.cycles]
    ELSE count_emulator_cycle(step(r.cpu, r.memory), r.cycles)

\* Emulator::reset: self.cpu.reset(&mut self.memory); self.cycles = 0.
Emulator_reset(c, mem) == [cpu |-> CPU_reset(c, mem), cycles |-> 0]

\* Variant of execute_steps_loop that leaves the loop after its first step.
execute_steps_once(s, executed, remaining) ==
    IF s.panic
    THEN [cpu |-> s.cpu, memory |-> s.memory, cycles |-> s.cycles, panic |-> TRUE,
          steps_executed |-> executed, halted |-> s.cpu.halted]
    ELSE [cpu |-> s.cpu, memory |-> s.memory, cycles |-> s.cycles, panic |-> FALSE,
          steps_executed |-> IF s.stepped THEN executed + 1 ELSE executed,
          halted |-> s.cpu.halted]

\* Emulator::execute_steps, one pass of `for _ in 0..steps { if !self.step()
\* { break; } executed += 1; }` and the ExecutionResult after the loop.
\* s is what the pass's self.step() returned; a panic inside it unwinds
\* through the loop.
RECURSIVE execute_steps_loop(_, _, _)
execute_steps_loop(s, executed, remaining) ==
    IF s.panic
    THEN [cpu |-> s.cpu, memory |-> s.memory, cycles |-> s.cycles, panic |-> TRUE,
          steps_executed |-> executed, halted |-> s.cpu.halted]
    ELSE IF ~s.stepped
    THEN [cpu |-> s.cpu, memory |-> s.memory, cycles |-> s.cycles, panic |-> FALSE,
          steps_executed |-> executed, halted |-> s.cpu.halted]
    ELSE IF remaining = 1
    THEN [cpu |-> s.cpu, memory |-> s.memory, cycles |-> s.cycles, panic |-> FALSE,
          steps_executed |-> executed + 1, halted |-> s.cpu.halted]
    ELSE execute_steps_loop(Emulator_step(s), executed + 1, remaining - 1)

\* c, mem and cycles are the Emulator's cpu, memory and cycles fields.
execute_steps(c, mem, cycles, steps) ==
    IF steps = 0
    THEN [cpu |-> c, memory |-> mem, cycles |-> cycles, panic |-> FALSE,
          steps_executed |-> 0, halted |-> c.halted]
    ELSE execute_steps_loop(Emulator_step([cycles |-> cycles] @@ Res(c, mem)), 0, steps)

\* Emulator::load_program: `self.memory.write(address + i as u16, byte)` for
\* each byte in turn.  `address + i as u16` is a checked u16 addition: past
\* 0xFFFF it panics under overflow checks (the bytes before it are written)
\* and otherwise wraps to address 0.
RECURSIVE load_program_from(_, _, _, _)
load_program_from(mem, address, data, i) ==
    IF i >= Len(data) THEN [memory |-> mem, panic |-> FALSE]
    ELSE IF address + (i % 65536) > 65535 /\ overflow_checks
         THEN [memory |-> mem, panic |-> TRUE]
         ELSE load_program_from(
                  Memory_write(mem, (address + (i % 65536)) % 65536, data[i + 1]),
                  address, data, i + 1)

load_program(mem, address, data) == load_program_from(mem, address, data, 0)

----------------------------------------------------------------------------
(* src/src/snapshots.rs: the run-length codec *)

\* Variant of run_count whose loop runs while count < 256, so that a run of
\* 256 equal bytes gets a count that `as u8` turns into 0.
run_count_to_256(mem_image, i) ==
    LET stops == {count \in 1..256 :
                     ~(/\ i + count < Len(mem_image)
                       /\ mem_image[i + count + 1] = mem_image[i + 1]
                       /\ count < 256)}
    IN  CHOOSE count \in stops : \A other \in stops : count <= other

\* The inner `while` of compress_memory starts at count = 1 and adds 1 while
\*   i + count < memory.len() && memory[i + count] == current_byte && count < 255
\* holds: it leaves count at the least value for which the condition fails.
run_count(mem_image, i) ==
    LET stops == {count \in 1..255 :
                     ~(/\ i + count < Len(mem_image)
                       /\ mem_image[i + count + 1] = mem_image[i + 1]
                       /\ count < 255)}
    IN  CHOOSE count \in stops : \A other \in stops : count <= other

\* for j in 0..count { if memory[i + j] == 0xFF { push 0xFF, 0x00 } else { push it } }
RECURSIVE literal_bytes(_, _, _, _)
literal_bytes(mem_image, i, j, count) ==
    IF j < count
    THEN (IF mem_image[i + j + 1] = 255 THEN <<255, 0>> ELSE <<mem_image[i + j + 1]>>)
         \o literal_bytes(mem_image, i, j + 1, count)
    ELSE <<>>

\* One trip of the outer `while i < memory.len()`; `count as u8` keeps the low byte.
compress_step(mem_image, st) ==
    LET current_byte == mem_image[st.i + 1]
        count == run_count(mem_image, st.i)
    IN  IF count > 3 \/ current_byte = 0
        THEN [i |-> st.i + count,
              compressed |-> st.compressed \o <<255, count % 256, current_byte>>]
        ELSE [i |-> st.i + count,
              compressed |-> st.compressed \o literal_bytes(mem_image, st.i, 0, count)]

\* The outer loop, run until i >= memory.len(): 2^depth trips at most.
RECURSIVE compress_while(_, _, _)
compress_while(mem_image, st, depth) ==
    IF st.i >= Len(mem_image) THEN st
    ELSE IF depth = 0 THEN compress_step(mem_image, st)
    ELSE compress_while(mem_image, compress_while(mem_image, st, depth - 1), depth - 1)

compress_memory(mem_image) ==
    compress_while(mem_image, [i |-> 0, compressed |-> <<>>], 17).compressed

\* One trip of `while i < compressed.len()`; err is set where the code returns Err.
decompress_step(compressed, st) ==
    IF compressed[st.i + 1] = 255
    THEN IF st.i + 1 >= Len(compressed)
         THEN [st EXCEPT !.err = "Truncated RLE data"]
         ELSE IF compressed[st.i + 2] = 0
              THEN [st EXCEPT !.i = @ + 2, !.decompressed = Append(@, 255)]
              ELSE IF st.i + 2 >= Len(compressed)
                   THEN [st EXCEPT !.err = "Truncated RLE sequence"]
                   ELSE LET count == compressed[st.i + 2]
                            value == compressed[st.i + 3]
                        IN  [st EXCEPT !.i = @ + 3,
                                       !.decompressed = @ \o [k \in 1..count |-> value]]
    ELSE [st EXCEPT !.i = @ + 1, !.decompressed = Append(@, compressed[st.i + 1])]

RECURSIVE decompress_while(_, _, _)
decompress_while(compressed, st, depth) ==
    IF st.i >= Len(compressed) \/ st.err # "" THEN st
    ELSE IF depth = 0 THEN decompress_step(compressed, st)
    ELSE decompress_while(compressed, decompress_while(compressed, st, depth - 1), depth - 1)

Ok(v) == [ok |-> TRUE, value |-> v]
Err(e) == [ok |-> FALSE, err |-> e]

\* Variant of decompress_memory without the final length test.
decompress_memory_any_length(compressed) ==
    LET st == decompress_while(compressed, [i |-> 0, decompressed |-> <<>>, err |-> ""], 17)
    IN  IF st.err # "" THEN Err(st.err) ELSE Ok(st.decompressed)

decompress_memory(compressed) ==
    LET st == decompress_while(compressed, [i |-> 0, decompressed |-> <<>>, err |-> ""], 17)
    IN  IF st.err # "" THEN Err(st.err)
        ELSE IF Len(st.decompressed) # 65536
             THEN Err("Decompressed size != 65536")
             ELSE Ok(st.decompressed)

----------------------------------------------------------------------------
(* src/src/snapshots.rs: EmulatorSnapshot *)

NoSnapshot == [none |-> TRUE]

\* for addr in 0..65536 { memory_dump.push(memory.read(addr as u16)) }
memory_dump_of(mem) == <<>> \o [ix \in 1..65536 |-> Memory_read(mem, ix - 1)]

\* Of the snapshot's fields only cpu_state and memory_dump carry core state;
\* id, name, owner, metadata, created_at, size_bytes and tags are left out.
create_from_emulator(c, mem) ==
    [cpu_state |-> [a |-> c.a, x |-> c.x, y |-> c.y, pc |-> c.pc, sp |-> c.sp,
                    status |-> c.status, cycles |-> 0, halted |-> c.halted],
     memory_dump |-> compress_memory(memory_dump_of(mem))]

\* Variant of restore_to_emulator that leaves out cpu.set_sp.
restore_to_emulator_without_sp(snap, c, mem) ==
    LET c1 == [c EXCEPT !.a = snap.cpu_state.a, !.x = snap.cpu_state.x,
                        !.y = snap.cpu_state.y, !.pc = snap.cpu_state.pc,
                        !.status = snap.cpu_state.status,
                        !.halted = IF snap.cpu_state.halted THEN TRUE ELSE @]
        decompressed_memory == decompress_memory(snap.memory_dump)
        image == decompressed_memory.value
    IN  IF ~decompressed_memory.ok
        THEN [result |-> decompressed_memory, cpu |-> c1, memory |-> mem]
        ELSE [result |-> [ok |-> TRUE], cpu |-> c1,
              memory |-> [ad \in {t \in 0..65535 : image[t + 1] # 0} |-> image[ad + 1]]]

\* The setters run first, then cpu.halt() if the snapshot is halted, then the
\* decode; `?` returns the decoder's Err with the registers already written.
restore_to_emulator(snap, c, mem) ==
    LET c1 == [c EXCEPT !.a = snap.cpu_state.a, !.x = snap.cpu_state.x,
                        !.y = snap.cpu_state.y, !.pc = snap.cpu_state.pc,
                        !.sp = snap.cpu_state.sp, !.status = snap.cpu_state.status,
                        !.halted = IF snap.cpu_state.halted THEN TRUE ELSE @]
        decompressed_memory == decompress_memory(snap.memory_dump)
        image == decompressed_memory.value
    IN  IF ~decompressed_memory.ok
        THEN [result |-> decompressed_memory, cpu |-> c1, memory |-> mem]
        ELSE IF Len(image) # 65536
        THEN [result |-> Err("Invalid memory dump size"), cpu |-> c1, memory |-> mem]
        ELSE [result |-> [ok |-> TRUE], cpu |-> c1,
              memory |-> [ad \in {t \in 0..65535 : image[t + 1] # 0} |-> image[ad + 1]]]

----------------------------------------------------------------------------
(* Bounds and inputs *)

MaxCycles == 6     \* instructions a core executes in one behaviour
MaxSteps == 4      \* step calls followed on the second core after its restore
MaxCut == 1        \* bytes a damaged snapshot stream has lost at its end
MaxOffset == 1     \* fill bytes in front of the run of a codec buffer

NoResult == [none |-> TRUE]
NoOrigin == [none |-> TRUE]

\* Programs: segments of bytes and the reset vector written at 0xFFFC/0xFFFD.
\*   brk_nop        BRK; NOP                       (test_brk_instruction)
\*   lda_sta        LDA #$FF; STA $0200; TAX; INX; STA $10; BRK
\*   unknown        LDA #$01; then the unlisted byte $02
\*   jsr_rts        JSR $9000; NOP; BRK  and  RTS at $9000
\*   jmp_self       SEC; JMP $8001
\*   low_vector     INX; DEY; BRK at $0300
Programs ==
    {[name |-> "brk_nop", vector |-> \h8000,
      segments |-> <<[start |-> \h8000, data |-> <<\h00, \hEA>>]>>],
     [name |-> "lda_sta", vector |-> \h8000,
      segments |-> <<[start |-> \h8000,
                      data |-> <<\hA9, \hFF, \h8D, \h00, \h02, \hAA, \hE8, \h85, \h10, \h00>>]>>],
     [name |-> "unknown", vector |-> \h8000,
      segments |-> <<[start |-> \h8000, data |-> <<\hA9, \h01, \h02>>]>>],
     [name |-> "jsr_rts", vector |-> \h8000,
      segments |-> <<[start |-> \h8000, data |-> <<\h20, \h00, \h90, \hEA, \h00>>],
                     [start |-> \h9000, data |-> <<\h60>>]>>],
     [name |-> "jmp_self", vector |-> \h8000,
      segments |-> <<[start |-> \h8000, data |-> <<\h38, \h4C, \h01, \h80>>]>>],
     [name |-> "low_vector", vector |-> \h0300,
      segments |-> <<[start |-> \h0300, data |-> <<\hE8, \h88, \h00>>]>>]}

SnapPrograms == {p \in Programs : p.name \in {"brk_nop", "lda_sta", "jsr_rts"}}

RestorePrograms == {p \in Programs : p.name \in {"brk_nop", "jsr_rts"}}

RECURSIVE load_segments(_, _, _)
load_segments(mem, segments, k) ==
    IF k > Len(segments) THEN mem
    ELSE load_segments(Memory_load_rom(mem, segments[k].data, segments[k].start),
                       segments, k + 1)

\* Host writes used to vary the reset vector and the first opcode.
WriteAddresses == {\hFFFC, \hFFFD, \h8000}
WriteValues == {\h00, \h03, \hEA}

\* Codec buffers: MEMORY_SIZE bytes, a run of n copies of v after `offset`
\* fill bytes, the rest filled with `fill`.
Alphabet == {\h00, \hAA, \hFF}
RunLens == {1, 2, 3, 4, 254, 255, 256}
RunBuffer(offset, v, n, fill) ==
    [k \in 1..offset |-> fill] \o [k \in 1..n |-> v]
        \o [k \in 1..(65536 - offset - n) |-> fill]

\* The buffers of the two tests of snapshots.rs.
TestBuffer1 ==
    [k \in 1..4096 |-> 0] \o <<255, 255, 255, 255>> \o [k \in 1..4092 |-> 0]
        \o <<\hAA, \hBB, \hCC>> \o [k \in 1..57341 |-> 0]
TestBuffer2 == <<255, 255, \hAA, 255, 0>> \o [k \in 1..65531 |-> 0]

\* The state names a buffer by its shape; Image is the buffer itself.
Buffers ==
    {[shape |-> "run", offset |-> offset, v |-> v, n |-> n, fill |-> fill] :
        offset \in 0..MaxOffset, v \in Alphabet, n \in RunLens, fill \in Alphabet}
    \cup {[shape |-> "test_memory_compression"], [shape |-> "test_rle_escape"]}

\* The images the raw dump of create_snapshot_handler is followed for: one
\* that holds 0xFF bytes and one that holds none.
DumpBuffers ==
    {[shape |-> "test_rle_escape"],
     [shape |-> "run", offset |-> 0, v |-> \hAA, n |-> 1, fill |-> 0]}

NoBuffer == [shape |-> "none"]

Image(b) ==
    CASE b.shape = "run" -> RunBuffer(b.offset, b.v, b.n, b.fill)
      [] b.shape = "test_memory_compression" -> TestBuffer1
      [] b.shape = "test_rle_escape" -> TestBuffer2

----------------------------------------------------------------------------
(* Initial states *)

\* The server before any request: nobody holds the mutex of the
\* EmulatorMap (lock) and it is not poisoned, nobody holds the mutex of the
\* snapshot store or of the template store; one request of each kind has
\* yet to enter its handler (the step handler makes one Emulator::step, the
\* execute request asks for two; get_state is for a second emulator of the
\* map, the other emulator requests for the first); the snapshot store is
\* empty.  boundaries collects the states the emulator has had between
\* instructions and between writes.
Server_new ==
    [lock |-> "free", poisoned |-> FALSE,
     store_lock |-> "free", templates_lock |-> "free",
     at |-> [r \in {"step", "execute", "write_memory", "load_program",
                    "create_snapshot", "restore_snapshot", "create_instance",
                    "get_state"} |-> "start"],
     response |-> [r \in {"restore_snapshot", "create_instance", "get_state"}
                      |-> NoResult],
     steps |-> [r \in {"step", "execute"} |-> IF r = "step" THEN 1 ELSE 2],
     opcode |-> [r \in {"step", "execute"} |-> -1],
     cpu_state |-> NoResult, memory_dump |-> NoResult,
     snapshots |-> {}, boundaries |-> {}]

\* Variant of lock_available for a mutex that excludes nobody.
lock_always_available(s) == TRUE

\* Mutex::lock returns once no other thread holds the guard.
lock_available(s) == s.lock = "free"

CoreFresh ==
    /\ cpu = CPU_new /\ memory = Memory_new /\ panicked = FALSE /\ fetched = -1
    /\ execution = NoResult /\ emulator_cycles = 0 /\ server = Server_new
    /\ lastOp = "new"

StackIdle == stack_log = <<>>

SnapIdle ==
    /\ snapshot = NoSnapshot /\ origin = NoOrigin /\ restore_result = NoResult

Core2Idle ==
    /\ cpu2 = CPU_new /\ memory2 = Memory_new /\ panicked2 = FALSE
    /\ restore_result2 = NoResult /\ steps2 = -1

CodecIdle ==
    /\ buffer = NoBuffer /\ stream = <<>> /\ stream_kind = "none" /\ decoded = NoResult

\* CPU::new(), Memory::new() under either build profile.
Init ==
    /\ overflow_checks \in BOOLEAN
    /\ CoreFresh /\ StackIdle /\ SnapIdle /\ Core2Idle /\ CodecIdle

\* The codec is handed one memory image; it has no arithmetic that overflows.
InitCodec ==
    /\ overflow_checks = FALSE
    /\ CoreFresh /\ StackIdle /\ SnapIdle /\ Core2Idle
    /\ buffer \in Buffers
    /\ stream = <<>> /\ stream_kind = "none" /\ decoded = NoResult

\* One instruction at 0x8000 with its operand bytes, the reset vector
\* pointing at it.
instruction_at_8000(bytes) ==
    Memory_write_u16(Memory_load_rom(Memory_new, bytes, \h8000), \hFFFC, \h8000)

\* One immediate-mode instruction over every register value and every
\* operand.  The three registers differ, so that an instruction that reads
\* the wrong one shows.  adc, sbc and compare widen to u16 / i16 or use
\* wrapping_sub and read_immediate uses wrapping_add: no arithmetic here can
\* overflow, so the build profile makes no difference.
AluStart(opcodes, statuses) ==
    /\ overflow_checks = FALSE
    /\ \E reg \in U8, m \in U8, opcode \in opcodes, status \in statuses :
           /\ cpu = [a |-> reg, x |-> (reg + 85) % 256, y |-> (reg + 170) % 256,
                     pc |-> \h8000, sp |-> 253, status |-> status,
                     cycles |-> 0, halted |-> FALSE]
           /\ memory = instruction_at_8000(<<opcode, m>>)
    /\ panicked = FALSE /\ fetched = -1 /\ lastOp = "set" /\ execution = NoResult /\ emulator_cycles = 0 /\ server = Server_new
    /\ StackIdle /\ SnapIdle /\ Core2Idle /\ CodecIdle

\* ADC #m and SBC #m with carry and decimal clear or set.
InitArith == AluStart({\h69, \hE9}, {\h24, \h25, \hEE, \hEF})

\* CMP #m, CPX #m and CPY #m with every flag clear or set.
InitCompare == AluStart({\hC9, \hE0, \hC0}, {\h24, \hEF})

\* One instruction of any opcode byte at 0x8000, over data the addressing
\* modes reach.  Operand bytes (first, second):
\*   00 80   JMP / JSR to the instruction itself; zero page 0x00
\*   FE 00   a branch to itself (offset -2); zero page 0xFE
\*   FF 02   a pointer at the end of a page (0x02FF); zero page 0xFF
\*   10 02   a pointer inside a page (0x0210); zero page 0x10
\*   80 00   the branch offset -128
InstrOperands == {<<\h00, \h80>>, <<\hFE, \h00>>, <<\hFF, \h02>>, <<\h10, \h02>>,
                  <<\h80, \h00>>}
InstrRegisters == {<<\h00, \h00, \h00>>, <<\h80, \h01, \hFF>>, <<\h7F, \hFF, \h01>>,
                   <<\hFF, \h80, \h7F>>}
InstrStackPointers == {\hFD, \h00}
InstrStatuses == {\h24, \hF7}

\* Non-zero data in the zero page, the stack page and pages 2 and 3.  The
\* stack cells above SP = 0xFD hold 0x7FFF, the return address that brings
\* an RTS at 0x8000 back to 0x8000.
DataAddresses ==
    {\h00, \h01, \h02, \h0F, \h10, \h11, \h7F, \h80, \h81, \hFD, \hFE, \hFF,
     \h0100, \h0101, \h0102, \h01FE, \h01FF,
     \h0200, \h0201, \h0210, \h0211, \h02FF, \h0300, \h0301, \h030F, \h0310}
DataImage ==
    [ad \in DataAddresses |->
        CASE ad = \h01FE -> \hFF
          [] ad = \h01FF -> \h7F
          [] OTHER -> ((ad * 37 + (ad \div 256) * 11) % 255) + 1]

InitInstr ==
    /\ overflow_checks \in BOOLEAN
    /\ \E opcode \in U8, operand \in InstrOperands, regs \in InstrRegisters,
          sp \in InstrStackPointers, status \in InstrStatuses :
           /\ cpu = [a |-> regs[1], x |-> regs[2], y |-> regs[3],
                     pc |-> \h8000, sp |-> sp, status |-> status,
                     cycles |-> 0, halted |-> FALSE]
           /\ memory = Memory_write_u16(
                           Memory_load_rom(DataImage,
                                           <<opcode, operand[1], operand[2]>>, \h8000),
                           \hFFFC, \h8000)
    /\ panicked = FALSE /\ fetched = -1 /\ lastOp = "set" /\ execution = NoResult /\ emulator_cycles = 0 /\ server = Server_new
    /\ StackIdle /\ SnapIdle /\ Core2Idle /\ CodecIdle

\* One instruction whose operand lies at an edge of its range: a branch
\* (BCC, BCS, BEQ, BNE, BMI, BPL, BVC, BVS) with every operand byte, and any
\* opcode with the operand bytes 00, 10 and FF; at 0x8000, and at 0xFFFE,
\* where the first operand byte is at 0xFFFF and the second at 0x0000.
InitEdge ==
    /\ overflow_checks \in BOOLEAN
    /\ \E opcode \in U8, d \in U8, high \in {\h00, \h02}, pc \in {\h8000, \hFFFE},
          status \in InstrStatuses :
           /\ \/ opcode \in {\h90, \hB0, \hF0, \hD0, \h30, \h10, \h50, \h70}
              \/ d \in {\h00, \h10, \hFF}
           /\ cpu = [a |-> \h42, x |-> \h01, y |-> \hFF,
                     pc |-> pc, sp |-> \hFD, status |-> status,
                     cycles |-> 0, halted |-> FALSE]
           /\ memory = Memory_load_rom(Memory_load_rom(DataImage, <<opcode, d>>, pc),
                                       <<high>>, (pc + 2) % 65536)
    /\ panicked = FALSE /\ fetched = -1 /\ lastOp = "set" /\ execution = NoResult /\ emulator_cycles = 0 /\ server = Server_new
    /\ StackIdle /\ SnapIdle /\ Core2Idle /\ CodecIdle

\* An emulator of the map with a program at 0x8000 and the reset vector on
\* it, after reset: LDA #$FF; STA $0200; INX; BRK, or BPL with the offset
\* -128, which panics in a build with overflow checks, or LDA #$01 and the
\* unlisted byte $02.  The second emulator of the map is as constructed.
\* The snapshot store is empty or holds a snapshot of the first emulator
\* taken by an earlier request.
InitServer ==
    /\ overflow_checks \in BOOLEAN
    /\ \E data \in {<<\hA9, \hFF, \h8D, \h00, \h02, \hE8, \h00>>, <<\h10, \h80>>,
                    <<\hA9, \h01, \h02>>} :
           memory = Memory_write_u16(Memory_load_rom(Memory_new, data, \h8000),
                                     \hFFFC, \h8000)
    /\ cpu = CPU_reset(CPU_new, memory)
    /\ \E stored \in {{}, {[cpu_state |-> cpu, memory_dump |-> memory]}} :
           server = [Server_new EXCEPT !.boundaries = {[cpu |-> cpu, memory |-> memory]},
                                       !.snapshots = stored]
    /\ execution = NoResult /\ emulator_cycles = 0
    /\ panicked = FALSE /\ fetched = -1 /\ lastOp = "set"
    /\ StackIdle /\ SnapIdle /\ Core2Idle /\ CodecIdle

----------------------------------------------------------------------------
(* Operations on the running core *)

LoadProgram(p) ==
    /\ ~panicked
    /\ lastOp = "new"
    /\ memory' = Memory_write_u16(load_segments(memory, p.segments, 1), \hFFFC, p.vector)
    /\ lastOp' = "load"
    /\ UNCHANGED <<server, execution, emulator_cycles, stack_log, cpu, panicked, fetched, overflow_checks, snapshot, origin,
                   restore_result, core2Vars, codecVars>>

WriteMemory(address, value) ==
    /\ ~panicked
    /\ memory' = Memory_write(memory, address, value)
    /\ lastOp' = "write"
    /\ UNCHANGED <<server, execution, emulator_cycles, stack_log, cpu, panicked, fetched, overflow_checks, snapshot, origin,
                   restore_result, core2Vars, codecVars>>

Reset ==
    /\ ~panicked
    /\ cpu' = CPU_reset(cpu, memory)
    /\ lastOp' = "reset"
    /\ UNCHANGED <<server, execution, emulator_cycles, stack_log, memory, panicked, fetched, overflow_checks, snapshot, origin,
                   restore_result, core2Vars, codecVars>>

Step ==
    /\ ~panicked
    /\ cpu.cycles < MaxCycles
    /\ \E r \in {step(cpu, memory)} :
           /\ cpu' = r.cpu
           /\ memory' = r.memory
           /\ panicked' = r.panic
    /\ fetched' = IF cpu.halted THEN -1 ELSE Memory_read(memory, cpu.pc)
    /\ lastOp' = "step"
    /\ UNCHANGED <<server, execution, emulator_cycles, stack_log, overflow_checks, snapshot, origin, restore_result, core2Vars, codecVars>>

\* JSR at a call site with an RTS at the target and NOP after the JSR
\* (test_jsr_rts), from every stack pointer.  The site 0x80FE has its last
\* operand byte in the next page, so the two pushed bytes differ.
MaxCallSteps == 3
CallSites == {\h8000, \h80FE}
CallTargets == {\h9000, \h0300}

InitCall ==
    /\ overflow_checks \in BOOLEAN
    /\ \E sp \in U8, site \in CallSites, target \in CallTargets :
           /\ cpu = [CPU_new EXCEPT !.pc = site, !.sp = sp]
           /\ memory = Memory_write(
                           Memory_load_rom(Memory_new,
                               <<\h20, target % 256, target \div 256, \hEA>>, site),
                           target, \h60)
    /\ panicked = FALSE /\ fetched = -1 /\ lastOp = "set" /\ execution = NoResult /\ emulator_cycles = 0 /\ server = Server_new
    /\ StackIdle /\ SnapIdle /\ Core2Idle /\ CodecIdle

CallStep ==
    /\ cpu.cycles < MaxCallSteps
    /\ Step

\* The stack page holds a different byte in every cell (0x0100 + i holds i);
\* the pages around it are empty.
MaxStackOps == 3
PushValues == {\h00, \h42}
StackImage == [ad \in \h0101..\h01FF |-> ad - \h0100]

InitStack ==
    /\ overflow_checks \in BOOLEAN
    /\ \E sp \in U8 : cpu = [CPU_new EXCEPT !.sp = sp]
    /\ memory = StackImage
    /\ panicked = FALSE /\ fetched = -1 /\ lastOp = "set" /\ execution = NoResult /\ emulator_cycles = 0 /\ server = Server_new
    /\ StackIdle /\ SnapIdle /\ Core2Idle /\ CodecIdle

\* cpu.push(&mut memory, value), called by the host as in test_stack_operations
Push(value) ==
    /\ ~panicked
    /\ Len(stack_log) < MaxStackOps
    /\ \E r \in {push(cpu, memory, value)} :
           /\ cpu' = r.cpu
           /\ memory' = r.memory
    /\ stack_log' = Append(stack_log, [op |-> "push", value |-> value, sp |-> cpu.sp])
    /\ lastOp' = "push"
    /\ UNCHANGED <<server, execution, emulator_cycles, panicked, fetched, overflow_checks, snapVars, core2Vars, codecVars>>

\* cpu.pop(&memory)
Pop ==
    /\ ~panicked
    /\ Len(stack_log) < MaxStackOps
    /\ \E r \in {pop(cpu, memory)} :
           /\ cpu' = r.cpu
           /\ stack_log' = Append(stack_log, [op |-> "pop", value |-> r.value, sp |-> cpu.sp])
    /\ lastOp' = "pop"
    /\ UNCHANGED <<server, execution, emulator_cycles, memory, panicked, fetched, overflow_checks, snapVars, core2Vars, codecVars>>

\* memory.load_rom(&data, start_address) on a new or a loaded memory
LoadRom(data, start_address) ==
    /\ ~panicked
    /\ lastOp \in {"new", "load"}
    /\ memory' = Memory_load_rom(memory, data, start_address)
    /\ execution' = [call |-> "load_rom", address |-> start_address, data |-> data]
    /\ lastOp' = "load_rom"
    /\ UNCHANGED <<emulator_cycles, server, cpu, panicked, fetched, overflow_checks, snapVars, core2Vars, codecVars,
                   stack_log>>

\* emulator.load_program(address, &data) on a new or a loaded emulator
EmulatorLoadProgram(address, data) ==
    /\ ~panicked
    /\ lastOp \in {"new", "load"}
    /\ \E r \in {load_program(memory, address, data)} :
           /\ memory' = r.memory
           /\ panicked' = r.panic
    /\ execution' = [call |-> "load_program", address |-> address, data |-> data]
    /\ lastOp' = "load_program"
    /\ UNCHANGED <<emulator_cycles, server, cpu, fetched, overflow_checks, snapVars, core2Vars, codecVars, stack_log>>

\* emulator.execute_steps(steps)
MaxBudget == 3
ExecuteSteps(steps) ==
    /\ ~panicked
    /\ cpu.cycles < MaxCycles
    /\ \E r \in {execute_steps(cpu, memory, emulator_cycles, steps)} :
           /\ cpu' = r.cpu
           /\ memory' = r.memory
           /\ emulator_cycles' = r.cycles
           /\ panicked' = r.panic
           /\ execution' = [call |-> "execute_steps", steps |-> steps, returned |-> ~r.panic,
                            steps_executed |-> r.steps_executed, halted |-> r.halted]
    /\ fetched' = -1
    /\ lastOp' = "execute"
    /\ UNCHANGED <<server, overflow_checks, snapVars, core2Vars, codecVars, stack_log>>

\* emulator.reset()
EmulatorReset ==
    /\ ~panicked
    /\ \E r \in {Emulator_reset(cpu, memory)} :
           /\ cpu' = r.cpu
           /\ emulator_cycles' = r.cycles
    /\ lastOp' = "reset"
    /\ UNCHANGED <<server, execution, stack_log, memory, panicked, fetched, overflow_checks,
                   snapVars, core2Vars, codecVars>>

\* emulator.step()
EmulatorStep ==
    /\ ~panicked
    /\ cpu.cycles < MaxCycles
    /\ \E r \in {Emulator_step([cpu |-> cpu, memory |-> memory, cycles |-> emulator_cycles])} :
           /\ cpu' = r.cpu
           /\ memory' = r.memory
           /\ emulator_cycles' = r.cycles
           /\ panicked' = r.panic
           /\ execution' = [call |-> "step", returned |-> ~r.panic, stepped |-> r.stepped]
    /\ fetched' = IF cpu.halted THEN -1 ELSE Memory_read(memory, cpu.pc)
    /\ lastOp' = "emulator_step"
    /\ UNCHANGED <<server, overflow_checks, snapVars, core2Vars, codecVars, stack_log>>

\* let mut emulators_lock = emulators.lock().unwrap(); the first statement
\* of every handler.  On a poisoned mutex lock() returns Err and unwrap
\* panics; the guard inside the error is dropped.
LockEmulators(r) ==
    /\ server.at[r] = "start"
    /\ lock_available(server)
    /\ server' = IF server.poisoned THEN [server EXCEPT !.at[r] = "panicked"]
                 ELSE [server EXCEPT !.lock = r, !.at[r] = "locked"]
    /\ lastOp' = "request"
    /\ UNCHANGED <<execution, emulator_cycles, stack_log, coreVars, overflow_checks, snapVars, core2Vars,
                   codecVars>>

\* step_handler and execute_handler: Emulator::step once, or in the loop of
\* execute_steps.  A step is the fetch (opcode read, PC advanced) and then
\* the match on the opcode and the cycle count; a panic in it unwinds the
\* handler, which drops the guard and poisons the mutex.
StepHandler(r) ==
    /\ \/ /\ server.at[r] = "locked"
          /\ cpu.halted \/ server.steps[r] = 0
          /\ server' = [server EXCEPT !.lock = "free", !.at[r] = "done"]
          /\ UNCHANGED <<cpu, memory, panicked, emulator_cycles>>
       \/ /\ server.at[r] = "locked"
          /\ ~cpu.halted /\ server.steps[r] > 0
          /\ cpu' = [cpu EXCEPT !.pc = (cpu.pc + 1) % 65536]
          /\ server' = [server EXCEPT !.at[r] = "decoding",
                                      !.opcode[r] = Memory_read(memory, cpu.pc)]
          /\ UNCHANGED <<memory, panicked, emulator_cycles>>
       \/ /\ server.at[r] = "decoding"
          /\ \E res \in {count_cycle(execute(server.opcode[r], cpu, memory))} :
                /\ cpu' = res.cpu
                /\ memory' = res.memory
                /\ emulator_cycles' = count_emulator_cycle(res, emulator_cycles).cycles
                /\ panicked' = (panicked \/ res.panic)
                /\ server' = IF res.panic
                             THEN [server EXCEPT !.lock = "free", !.poisoned = TRUE,
                                                 !.at[r] = "panicked"]
                             ELSE [server EXCEPT !.at[r] = "locked", !.steps[r] = @ - 1,
                                       !.boundaries = @ \cup {[cpu |-> res.cpu,
                                                               memory |-> res.memory]}]
    /\ lastOp' = "request"
    /\ UNCHANGED <<execution, stack_log, fetched, overflow_checks, snapVars, core2Vars,
                   codecVars>>

\* write_memory_handler and load_program_handler: the write under the guard,
\* which is dropped when the handler returns or panics.
WriteHandler(r) ==
    /\ server.at[r] = "locked"
    /\ \/ /\ r = "write_memory"
          /\ \E address \in {\h8000, \h0200} :
                \E mem \in {Memory_write(memory, address, \hEA)} :
                    /\ memory' = mem
                    /\ server' = [server EXCEPT !.lock = "free", !.at[r] = "done",
                                      !.boundaries = @ \cup {[cpu |-> cpu, memory |-> mem]}]
          /\ UNCHANGED panicked
       \/ /\ r = "load_program"
          /\ \E address \in {\h8000, \hFFFF} :
                \E res \in {load_program(memory, address, <<\hE8, \h00>>)} :
                    /\ memory' = res.memory
                    /\ panicked' = (panicked \/ res.panic)
                    /\ server' = IF res.panic
                                 THEN [server EXCEPT !.lock = "free", !.poisoned = TRUE,
                                                     !.at[r] = "panicked"]
                                 ELSE [server EXCEPT !.lock = "free", !.at[r] = "done",
                                           !.boundaries = @ \cup {[cpu |-> cpu,
                                                                   memory |-> res.memory]}]
    /\ lastOp' = "request"
    /\ UNCHANGED <<execution, emulator_cycles, stack_log, cpu, fetched, overflow_checks, snapVars,
                   core2Vars, codecVars>>

\* create_snapshot_handler: emulator.get_state(), then
\* emulator.get_memory_dump(), then snapshots.lock().unwrap() and the insert
\* into the snapshot store; the guard of the EmulatorMap is held to the end
\* of the function.  (Nothing panics while it holds the guard of the store
\* alone, so that mutex is never found poisoned by this handler.)
CreateSnapshotHandler ==
    /\ \/ /\ server.at["create_snapshot"] = "locked"
          /\ server' = [server EXCEPT !.at["create_snapshot"] = "state_read",
                            !.cpu_state = [a |-> cpu.a, x |-> cpu.x, y |-> cpu.y,
                                           pc |-> cpu.pc, sp |-> cpu.sp,
                                           status |-> cpu.status, cycles |-> emulator_cycles,
                                           halted |-> cpu.halted]]
       \/ /\ server.at["create_snapshot"] = "state_read"
          /\ server' = [server EXCEPT !.at["create_snapshot"] = "dump_read",
                            !.memory_dump = memory]
       \/ /\ server.at["create_snapshot"] = "dump_read"
          /\ server.store_lock = "free"
          /\ server' = [server EXCEPT !.lock = "free", !.at["create_snapshot"] = "done",
                            !.snapshots = @ \cup {[cpu_state |-> server.cpu_state,
                                                   memory_dump |-> server.memory_dump]}]
    /\ lastOp' = "request"
    /\ UNCHANGED <<execution, emulator_cycles, stack_log, coreVars, overflow_checks, snapVars, core2Vars,
                   codecVars>>

\* Memory::write_u16 and Memory::read_u16 called by the host on a fresh or
\* loaded memory: one write, then reads.
WordAccess(address, value) ==
    /\ \/ /\ lastOp \in {"new", "load"}
          /\ memory' = Memory_write_u16(memory, address, value)
          /\ execution' = [call |-> "write_u16", address |-> address, value |-> value]
          /\ lastOp' = "write_u16"
       \/ /\ lastOp \in {"load", "write_u16"}
          /\ execution' = [call |-> "read_u16", address |-> address,
                           returned |-> Memory_read_u16(memory, address)]
          /\ lastOp' = "read_u16"
          /\ UNCHANGED memory
    /\ UNCHANGED <<emulator_cycles, server, stack_log, cpu, panicked, fetched, overflow_checks, snapVars,
                   core2Vars, codecVars>>

\* restore_snapshot_handler: snapshots.lock().unwrap(), the lookup of the
\* snapshot, then emulators.lock().unwrap() with the guard of the store
\* still held, the lookup of the emulator and the reply "Snapshot restored"
\* (200); the emulator is not written.
RestoreSnapshotHandler ==
    /\ \/ /\ server.at["restore_snapshot"] = "start"
          /\ server.store_lock = "free"
          /\ server' = [server EXCEPT !.store_lock = "restore_snapshot",
                                      !.at["restore_snapshot"] = "store_locked"]
       \/ /\ server.at["restore_snapshot"] = "store_locked"
          /\ server.snapshots = {}
          /\ server' = [server EXCEPT !.store_lock = "free",
                                      !.at["restore_snapshot"] = "done",
                                      !.response["restore_snapshot"] = [status |-> 404]]
       \/ /\ server.at["restore_snapshot"] = "store_locked"
          /\ lock_available(server)
          /\ \E snap \in server.snapshots :
                server' = IF server.poisoned
                          THEN [server EXCEPT !.store_lock = "free",
                                              !.at["restore_snapshot"] = "panicked"]
                          ELSE [server EXCEPT !.store_lock = "free",
                                    !.at["restore_snapshot"] = "done",
                                    !.response["restore_snapshot"] =
                                        [status |-> 200, snapshot |-> snap]]
    /\ lastOp' = "request"
    /\ UNCHANGED <<execution, emulator_cycles, stack_log, coreVars, overflow_checks, snapVars, core2Vars,
                   codecVars>>

\* create_instance_handler: templates.lock().unwrap(), the lookup of the
\* template, then emulators.lock().unwrap() with the guard of the templates
\* still held and the insert of a new emulator.
CreateInstanceHandler ==
    /\ \/ /\ server.at["create_instance"] = "start"
          /\ server.templates_lock = "free"
          /\ server' = [server EXCEPT !.templates_lock = "create_instance",
                                      !.at["create_instance"] = "templates_locked"]
       \/ /\ server.at["create_instance"] = "templates_locked"
          /\ lock_available(server)
          /\ server' = IF server.poisoned
                       THEN [server EXCEPT !.templates_lock = "free",
                                           !.at["create_instance"] = "panicked"]
                       ELSE [server EXCEPT !.templates_lock = "free",
                                           !.at["create_instance"] = "done",
                                           !.response["create_instance"] = [status |-> 201]]
    /\ lastOp' = "request"
    /\ UNCHANGED <<execution, emulator_cycles, stack_log, coreVars, overflow_checks, snapVars, core2Vars,
                   codecVars>>

\* get_state_handler for the second emulator of the map: get_state under the
\* guard.
GetStateHandler ==
    /\ server.at["get_state"] = "locked"
    /\ server' = [server EXCEPT !.lock = "free", !.at["get_state"] = "done",
                      !.response["get_state"] =
                          [a |-> cpu2.a, x |-> cpu2.x, y |-> cpu2.y, pc |-> cpu2.pc,
                           sp |-> cpu2.sp, status |-> cpu2.status,
                           cycles |-> cpu2.cycles, halted |-> cpu2.halted]]
    /\ lastOp' = "request"
    /\ UNCHANGED <<execution, emulator_cycles, stack_log, coreVars, overflow_checks, snapVars, core2Vars,
                   codecVars>>

\* The step that executes the instruction the initial state was set up with.
ExecuteOne ==
    /\ lastOp = "set"
    /\ Step

----------------------------------------------------------------------------
(* Snapshots *)

\* One snapshot is taken in a behaviour.
Snapshot ==
    /\ ~panicked
    /\ snapshot = NoSnapshot
    /\ snapshot' = create_from_emulator(cpu, memory)
    /\ origin' = [cpu |-> cpu, memory |-> memory]
    /\ lastOp' = "snapshot"
    /\ UNCHANGED <<server, execution, emulator_cycles, stack_log, coreVars, overflow_checks, restore_result, core2Vars, codecVars>>

\* memory_dump is a public, deserialized Vec<u8>: a blob that lost its last
\* `cut` bytes on the way is handed to restore like any other.
Truncate(cut) ==
    /\ ~panicked
    /\ lastOp = "snapshot"
    /\ steps2 = -1
    /\ cut <= Len(snapshot.memory_dump)
    /\ snapshot' = [snapshot EXCEPT
                        !.memory_dump = SubSeq(@, 1, Len(@) - cut)]
    /\ origin' = NoOrigin
    /\ lastOp' = "truncate"
    /\ UNCHANGED <<server, execution, emulator_cycles, stack_log, coreVars, overflow_checks, restore_result, core2Vars, codecVars>>

\* restore_to_emulator on the running core itself; one restore in a behaviour.
Restore ==
    /\ ~panicked
    /\ snapshot # NoSnapshot
    /\ restore_result = NoResult
    /\ \E r \in {restore_to_emulator(snapshot, cpu, memory)} :
           /\ cpu' = r.cpu
           /\ memory' = r.memory
           /\ restore_result' = r.result
    /\ lastOp' = "restore"
    /\ UNCHANGED <<server, execution, emulator_cycles, stack_log, panicked, fetched, overflow_checks, snapshot, origin,
                   core2Vars, codecVars>>

\* restore_to_emulator on CPU::new() and Memory::new().  It reads nothing but
\* the snapshot, so it is taken where the snapshot has just been made.
RestoreFresh ==
    /\ lastOp \in {"snapshot", "truncate"}
    /\ steps2 = -1
    /\ \E r \in {restore_to_emulator(snapshot, CPU_new, Memory_new)} :
           /\ cpu2' = r.cpu
           /\ memory2' = r.memory
           /\ restore_result2' = r.result
    /\ panicked2' = FALSE
    /\ steps2' = 0
    /\ UNCHANGED <<server, execution, emulator_cycles, stack_log, coreVars, overflow_checks, lastOp, snapVars, codecVars>>

Step2 ==
    /\ ~panicked2
    /\ steps2 >= 0
    /\ steps2 < MaxSteps
    /\ restore_result2 = [ok |-> TRUE]
    /\ cpu2.cycles < MaxCycles
    /\ \E r \in {step(cpu2, memory2)} :
           /\ cpu2' = r.cpu
           /\ memory2' = r.memory
           /\ panicked2' = r.panic
    /\ steps2' = steps2 + 1
    /\ UNCHANGED <<server, execution, emulator_cycles, stack_log, coreVars, overflow_checks, lastOp, snapVars, restore_result2, codecVars>>

----------------
(* Codec operations *)

Compress ==
    /\ stream_kind = "none"
    /\ stream' = compress_memory(Image(buffer))
    /\ stream_kind' = "encoded"
    /\ UNCHANGED <<server, execution, emulator_cycles, stack_log, coreVars, overflow_checks, lastOp, snapVars, core2Vars, buffer, decoded>>

\* create_snapshot_handler's memory_dump: emulator.get_memory_dump(), that is
\* (0..=65535).map(|addr| self.memory.read(addr)).collect(), stored in the
\* snapshot as it is.
GetMemoryDump ==
    /\ stream_kind = "none"
    /\ buffer \in DumpBuffers
    /\ \E image \in {Image(buffer)} :
           stream' = <<>> \o [ix \in 1..MEMORY_SIZE |-> image[ix]]
    /\ stream_kind' = "dump"
    /\ UNCHANGED <<server, execution, emulator_cycles, stack_log, coreVars, overflow_checks, lastOp,
                   snapVars, core2Vars, buffer, decoded>>

\* Streams that are not the encoder's output: ended right after a sentinel,
\* ended after a sentinel and a count, cut short, or carrying one byte more.
Damage(kind) ==
    /\ stream_kind = "encoded"
    /\ decoded = NoResult
    /\ stream' =
         CASE kind = "sentinel_last" -> Append(stream, 255)
           [] kind = "count_last" -> stream \o <<255, 7>>
           [] kind = "extended" -> Append(stream, 1)
           [] kind = "cut" -> SubSeq(stream, 1, Len(stream) - 1)
    /\ stream_kind' = kind
    /\ UNCHANGED <<server, execution, emulator_cycles, stack_log, coreVars, overflow_checks, lastOp, snapVars, core2Vars, buffer, decoded>>

Decompress ==
    /\ stream_kind # "none"
    /\ decoded = NoResult
    /\ decoded' = decompress_memory(stream)
    /\ UNCHANGED <<server, execution, emulator_cycles, stack_log, coreVars, overflow_checks, lastOp, snapVars, core2Vars, buffer,
                   stream, stream_kind>>

----------------------------------------------------------------------------
(* Specifications *)

\* Freeze and resume: the running core, its snapshot, and a second core
\* that is restored from the snapshot and stepped.
Next ==
    \/ \E p \in SnapPrograms : LoadProgram(p)
    \/ Reset
    \/ Step
    \/ Snapshot
    \/ RestoreFresh
    \/ Step2

Spec == Init /\ [][Next]_vars

\* Restore into an existing core: the running core goes on after the
\* snapshot, the blob may arrive damaged, and the snapshot is restored into
\* the running core and into a fresh one.
NextRestore ==
    \/ \E p \in RestorePrograms : LoadProgram(p)
    \/ Reset
    \/ Step
    \/ Snapshot
    \/ \E cut \in 1..MaxCut : Truncate(cut)
    \/ Restore
    \/ RestoreFresh

SpecRestore == Init /\ [][NextRestore]_vars

\* The CPU alone, driven by a host that loads, writes, resets and steps.
NextCpu ==
    \/ \E p \in Programs : LoadProgram(p)
    \/ \E address \in WriteAddresses, value \in WriteValues : WriteMemory(address, value)
    \/ Reset
    \/ Step

SpecCpu == Init /\ [][NextCpu]_vars

\* The Emulator as its host drives it: bulk loads, reset, batches of steps.
NextEmulator ==
    \/ \E p \in Programs : LoadProgram(p)
    \/ \E address \in {\h0200, \hFFFD, \hFFFE, \hFFFF},
          data \in {<<\hEA>>, <<\hE8, \h00>>, <<\hA9, \h01, \hEA>>} :
              \/ LoadRom(data, address)
              \/ EmulatorLoadProgram(address, data)
    \/ EmulatorReset
    \/ EmulatorStep
    \/ \E steps \in 0..MaxBudget : ExecuteSteps(steps)

SpecEmulator == Init /\ [][NextEmulator]_vars

\* One arithmetic instruction.
\* A call and its return.
NextCall ==
    \/ CallStep

SpecCall == InitCall /\ [][NextCall]_vars

\* The host pushing and popping.
NextStack ==
    \/ \E value \in PushValues : Push(value)
    \/ Pop

SpecStack == InitStack /\ [][NextStack]_vars

NextArith ==
    \/ ExecuteOne

SpecArith == InitArith /\ [][NextArith]_vars

\* One compare instruction.
NextCompare ==
    \/ ExecuteOne

SpecCompare == InitCompare /\ [][NextCompare]_vars

\* One instruction of any opcode.
NextInstr ==
    \/ ExecuteOne

SpecInstr == InitInstr /\ [][NextInstr]_vars

\* One instruction with its operand at an edge.
SpecEdge == InitEdge /\ [][NextInstr]_vars

\* Concurrent requests against one emulator of the shared map.
NextServer ==
    \/ \E r \in {"step", "execute", "write_memory", "load_program", "create_snapshot",
                 "get_state"} : LockEmulators(r)
    \/ \E r \in {"step", "execute"} : StepHandler(r)
    \/ \E r \in {"write_memory", "load_program"} : WriteHandler(r)
    \/ CreateSnapshotHandler
    \/ RestoreSnapshotHandler
    \/ CreateInstanceHandler
    \/ GetStateHandler

SpecServer == InitServer /\ [][NextServer]_vars

\* 16-bit words written and read by the host, next to and across the loaded
\* programs, the reset vector and the end of the address space.
NextWord ==
    \/ \E p \in Programs : LoadProgram(p)
    \/ \E address \in {\h0000, \h7FFF, \h8000, \h8001, \hFFFB, \hFFFC, \hFFFE, \hFFFF},
          value \in {\h0000, \h0001, \h0100, \h1234, \h00FF, \hFF00, \h8000, \hFFFF} :
              WordAccess(address, value)

SpecWord == Init /\ [][NextWord]_vars

\* The codec alone.
NextCodec ==
    \/ Compress
    \/ GetMemoryDump
    \/ \E kind \in {"sentinel_last", "count_last", "extended", "cut"} : Damage(kind)
    \/ Decompress

SpecCodec == InitCodec /\ [][NextCodec]_vars

----------------------------------------------------------------------------
(* Properties: the run-length codec (SpecCodec) *)

\* C1: for every 65536-byte buffer M, decompress_memory(compress_memory(M))
\* is Ok and its buffer equals M byte for byte.
C1_RoundTrip ==
    (stream_kind = "encoded" /\ decoded # NoResult)
        => (decoded.ok /\ decoded.value = Image(buffer))

\* A run of 255 bytes 0xFF followed by one more (256 in all) has gone
\* through the encoder and the decoder and come back.
C1_Witness ==
    /\ stream_kind = "encoded"
    /\ buffer = [shape |-> "run", offset |-> 1, v |-> 255, n |-> 256, fill |-> 170]
    /\ decoded # NoResult
    /\ decoded.ok
    /\ decoded.value = Image(buffer)

\* C7: decompress_memory returns Ok only with exactly 65536 bytes; a stream
\* that ends right after a sentinel, or after a sentinel and a non-zero
\* count, or that decodes to fewer or more than 65536 bytes, returns Err.
C7_DecodeLength ==
    decoded # NoResult =>
        /\ decoded.ok => Len(decoded.value) = MEMORY_SIZE
        /\ stream_kind \in {"sentinel_last", "count_last", "extended", "cut"}
               => ~decoded.ok

\* A stream that ends after a sentinel and a count has been refused.
C7_Witness ==
    /\ stream_kind = "count_last"
    /\ decoded = Err("Truncated RLE sequence")

\* C33: the encoder's output is unambiguous.  Read record by record from its
\* start, every stream compress_memory produces consists of three-byte
\* records 0xFF, n, v with n in 1..255 that stand for n input bytes v, of
\* two-byte records 0xFF, 0x00 that stand where the input holds a 0xFF, and
\* of single bytes other than 0xFF that stand for themselves; the records
\* cover the input from its first byte to its last.
C33_StreamUnambiguous ==
    stream_kind = "encoded" =>
        \E image \in {Image(buffer)} :
            LET one(st) ==
                    IF stream[st.i + 1] # 255
                    THEN [i |-> st.i + 1, k |-> st.k + 1,
                          ok |-> st.k < Len(image) /\ image[st.k + 1] = stream[st.i + 1]]
                    ELSE IF st.i + 1 >= Len(stream) THEN [st EXCEPT !.ok = FALSE]
                    ELSE IF stream[st.i + 2] = 0
                    THEN [i |-> st.i + 2, k |-> st.k + 1,
                          ok |-> st.k < Len(image) /\ image[st.k + 1] = 255]
                    ELSE IF st.i + 2 >= Len(stream) THEN [st EXCEPT !.ok = FALSE]
                    ELSE [i |-> st.i + 3, k |-> st.k + stream[st.i + 2],
                          ok |-> /\ stream[st.i + 2] \in 1..255
                                 /\ st.k + stream[st.i + 2] <= Len(image)
                                 /\ \A j \in 1..stream[st.i + 2] :
                                        image[st.k + j] = stream[st.i + 3]]
                RECURSIVE records(_, _)
                records(st, depth) ==
                    IF st.i >= Len(stream) \/ ~st.ok THEN st
                    ELSE IF depth = 0 THEN one(st)
                    ELSE records(records(st, depth - 1), depth - 1)
                end == records([i |-> 0, k |-> 0, ok |-> TRUE], 17)
            IN  end.ok /\ end.i = Len(stream) /\ end.k = Len(image)

\* A byte 0xAA, two escaped bytes 0xFF and runs of 0xAA have been encoded.
C33_Witness ==
    /\ stream_kind = "encoded"
    /\ buffer = [shape |-> "run", offset |-> 1, v |-> 255, n |-> 2, fill |-> 170]
    /\ SubSeq(stream, 1, 8) = <<170, 255, 0, 255, 0, 255, 255, 170>>

\* C38: every snapshot placed in the snapshot store, by
\* EmulatorSnapshot::create_from_emulator or by create_snapshot_handler, has
\* a memory_dump that decompress_memory returns Ok for, with exactly the
\* emulator's 65536-byte memory image of the time of creation, images that
\* contain 0xFF bytes included.
C38_StoredDumpDecodes ==
    \A kind \in {"encoded", "dump"} :
        (stream_kind = kind /\ decoded # NoResult)
            => (decoded.ok /\ decoded.value = Image(buffer))

----------------------------------------------------------------------------
(* Properties: freeze and resume (Spec) *)

\* The registers other than the cycle counter.
registers(c) ==
    [a |-> c.a, x |-> c.x, y |-> c.y, pc |-> c.pc, sp |-> c.sp,
     status |-> c.status, halted |-> c.halted]

\* C2: a snapshot of core state s restored into a freshly constructed CPU and
\* Memory yields a core whose A, X, Y, PC, SP, P, cycles, halted and memory
\* equal those of s.
C2_RestoreEqualsOrigin ==
    (origin # NoOrigin /\ steps2 = 0)
        => /\ restore_result2 = [ok |-> TRUE]
           /\ cpu2 = origin.cpu
           /\ memory2 = origin.memory

\* C5: a snapshot records the core's current cycles value.
C5_SnapshotCycles ==
    lastOp = "snapshot" => snapshot.cpu_state.cycles = cpu.cycles

\* C6: restoring a snapshot of s into a fresh core and calling step n times
\* yields the same A, X, Y, PC, SP, P, halted bit and memory as calling step
\* n times from s.
C6_FreezeResume ==
    (origin # NoOrigin /\ steps2 >= 0)
        => \E r \in {step_n(Res(origin.cpu, origin.memory), steps2)} :
               /\ restore_result2 = [ok |-> TRUE]
               /\ panicked2 = r.panic
               /\ registers(cpu2) = registers(r.cpu)
               /\ memory2 = r.memory

\* The resumed core has run on from a snapshot taken in mid-program and has
\* written memory.
C6_Witness ==
    /\ origin # NoOrigin
    /\ origin.cpu.cycles > 0
    /\ steps2 >= 2
    /\ cpu2.pc # origin.cpu.pc
    /\ memory2 # origin.memory

----------------------------------------------------------------------------
(* Properties: restore into an existing core (SpecRestore) *)

\* C3: a successful restore overwrites all state of the target whatever it
\* held: the running core (possibly halted, with cycles run up) and a fresh
\* core restored from the same snapshot end with identical registers, flags,
\* cycles, halted bit and memory.
C3_RestoreOverwrites ==
    (/\ lastOp = "restore" /\ restore_result = [ok |-> TRUE]
     /\ steps2 = 0 /\ restore_result2 = [ok |-> TRUE])
        => (cpu = cpu2 /\ memory = memory2)

\* C4: when restore_to_emulator returns Err, the target is left as it was:
\* A, X, Y, PC, SP, P, halted and every memory cell.
C4_FailedRestoreLeavesTarget ==
    [][(/\ restore_result = NoResult /\ restore_result' # NoResult
        /\ ~restore_result'.ok)
          => (registers(cpu') = registers(cpu) /\ memory' = memory)]_vars

----------------------------------------------------------------------------
(* Properties: the CPU (SpecCpu) *)

\* C8: after reset, from any CPU state and memory, A = X = Y = 0, SP = 0xFD,
\* P = 0x24, cycles = 0, halted = false, PC is the little-endian word at
\* 0xFFFC..0xFFFD, and memory is unchanged.
C8_ResetContract ==
    [][lastOp' = "reset"
          => /\ cpu'.a = 0 /\ cpu'.x = 0 /\ cpu'.y = 0
             /\ cpu'.sp = 253 /\ cpu'.status = 36
             /\ cpu'.cycles = 0 /\ cpu'.halted = FALSE
             /\ cpu'.pc = Memory_read(memory, 65533) * 256 + Memory_read(memory, 65532)
             /\ memory' = memory]_vars

\* A reset has loaded PC from a vector the host wrote by hand.
C8_Witness ==
    /\ lastOp = "reset"
    /\ Memory_read(memory, 65533) = 3
    /\ cpu.pc = 768 + Memory_read(memory, 65532)
    /\ ~cpu.halted

C10_UnknownOpcodeReported ==
    [][(lastOp' = "step" /\ ~cpu.halted /\ Memory_read(memory, cpu.pc) \notin Opcodes)
          => /\ ~panicked'
             /\ cpu' = [cpu EXCEPT !.pc = (cpu.pc + 1) % 65536]
             /\ memory' = memory]_vars

----------------------------------------------------------------------------
(* Properties: single instructions (SpecInstr) *)

\* The operand bytes that follow the opcode at PC.
operand1 == Memory_read(memory, (cpu.pc + 1) % 65536)
operand2 == Memory_read(memory, (cpu.pc + 2) % 65536)

\* C11: step recognises STX (zero page 0x86, zero page,Y 0x96, absolute 0x8E)
\* and STY (zero page 0x84, zero page,X 0x94, absolute 0x8C): it writes X,
\* respectively Y, to the effective address, advances PC past the operand
\* and raises no UnknownOpcode.
C11_StoreXY ==
    [][(lastOp' = "step" /\ ~cpu.halted
        /\ Memory_read(memory, cpu.pc) \in {\h86, \h96, \h8E, \h84, \h94, \h8C})
          => LET opcode == Memory_read(memory, cpu.pc)
                 value == IF opcode \in {\h86, \h96, \h8E} THEN cpu.x ELSE cpu.y
                 address == CASE opcode = \h86 -> operand1
                              [] opcode = \h96 -> (operand1 + cpu.y) % 256
                              [] opcode = \h84 -> operand1
                              [] opcode = \h94 -> (operand1 + cpu.x) % 256
                              [] OTHER -> operand2 * 256 + operand1
                 length == IF opcode \in {\h8E, \h8C} THEN 3 ELSE 2
             IN  /\ ~panicked'
                 /\ memory' = Memory_write(memory, address, value)
                 /\ cpu'.pc = (cpu.pc + length) % 65536
                 /\ cpu'.x = cpu.x /\ cpu'.y = cpu.y]_vars

\* C16: after every step that executes an instruction that updates N and Z
\* (loads, ADC, SBC, compares, AND/ORA/EOR, INC/DEC, INX/INY/DEX/DEY,
\* TAX/TAY/TXA/TYA/TSX), Z is set exactly when the instruction's 8-bit result
\* is 0 and N exactly when bit 7 of the result is 1.  The result is the
\* register the instruction left its value in, the memory cell INC/DEC
\* changed, or (reg - M) mod 256 for a compare.
C16_ZeroAndNegative ==
    [][LET opcode == Memory_read(memory, cpu.pc)
           into_a == {\hA9, \hA5, \hB5, \hAD, \hBD, \hB9, \hA1, \hB1,
                      \h69, \h65, \h75, \h6D, \h7D, \h79, \h61, \h71,
                      \hE9, \hE5, \hF5, \hED, \hFD, \hF9, \hE1, \hF1,
                      \h29, \h25, \h35, \h2D, \h3D, \h39, \h21, \h31,
                      \h09, \h05, \h15, \h0D, \h1D, \h19, \h01, \h11,
                      \h49, \h45, \h55, \h4D, \h5D, \h59, \h41, \h51,
                      \h8A, \h98}
           into_x == {\hA2, \hA6, \hB6, \hAE, \hBE, \hE8, \hCA, \hAA, \hBA}
           into_y == {\hA0, \hA4, \hB4, \hAC, \hBC, \hC8, \h88, \hA8}
           into_memory == {\hE6, \hF6, \hEE, \hFE, \hC6, \hD6, \hCE, \hDE}
           compares == {\hC9, \hC5, \hD5, \hCD, \hDD, \hD9, \hC1, \hD1,
                        \hE0, \hE4, \hEC, \hC0, \hC4, \hCC}
           mode == CASE opcode \in {\hC9, \hE0, \hC0} -> "Immediate"
                     [] opcode \in {\hC5, \hE4, \hC4} -> "ZeroPage"
                     [] opcode = \hD5 -> "ZeroPageX"
                     [] opcode \in {\hCD, \hEC, \hCC} -> "Absolute"
                     [] opcode = \hDD -> "AbsoluteX"
                     [] opcode = \hD9 -> "AbsoluteY"
                     [] opcode = \hC1 -> "IndexedIndirect"
                     [] OTHER -> "IndirectIndexed"
           reg == CASE opcode \in {\hE0, \hE4, \hEC} -> cpu.x
                    [] opcode \in {\hC0, \hC4, \hCC} -> cpu.y
                    [] OTHER -> cpu.a
           at_operand == [cpu EXCEPT !.pc = (cpu.pc + 1) % 65536]
           results ==
               CASE opcode \in into_a -> {cpu'.a}
                 [] opcode \in into_x -> {cpu'.x}
                 [] opcode \in into_y -> {cpu'.y}
                 [] opcode \in into_memory ->
                       {Memory_read(memory', ad) :
                           ad \in {t \in (DOMAIN memory) \cup (DOMAIN memory') :
                                      Memory_read(memory', t) # Memory_read(memory, t)}}
                 [] OTHER -> {(reg - read_operand(mode, at_operand, memory).value) % 256}
       IN  (/\ lastOp' = "step" /\ ~cpu.halted /\ ~panicked'
            /\ opcode \in into_a \cup into_x \cup into_y \cup into_memory \cup compares)
              => /\ Cardinality(results) = 1
                 /\ \A result \in results :
                       /\ get_flag(cpu'.status, ZERO_FLAG) <=> (result = 0)
                       /\ get_flag(cpu'.status, NEGATIVE_FLAG) <=> (result >= 128)]_vars

\* DEC $00 on a cell holding 1: the cell becomes 0 and Z is set, N clear.
C16_Witness ==
    /\ lastOp = "step" /\ fetched = \hC6
    /\ Memory_read(memory, \h8001) = \h00 /\ Memory_read(memory, \h00) = 0
    /\ get_flag(cpu.status, ZERO_FLAG) /\ ~get_flag(cpu.status, NEGATIVE_FLAG)

\* C19: JMP indirect reproduces the page-wrap bug: when the pointer's low
\* byte is 0xFF the target's low byte is read from the pointer and its high
\* byte from (pointer and 0xFF00), never from pointer + 1; for every other
\* pointer the high byte is read from pointer + 1.
C19_JmpIndirectPageWrap ==
    [][(lastOp' = "step" /\ ~cpu.halted /\ Memory_read(memory, cpu.pc) = \h6C)
          => LET pointer == operand2 * 256 + operand1
                 high_at == IF operand1 = \hFF THEN operand2 * 256 ELSE pointer + 1
             IN  /\ ~panicked'
                 /\ cpu'.pc % 256 = Memory_read(memory, pointer)
                 /\ cpu'.pc \div 256 = Memory_read(memory, high_at)
                 /\ memory' = memory]_vars

\* JMP ($02FF): the high byte came from 0x0200, and 0x0300 holds another byte.
C19_Witness ==
    /\ lastOp = "step" /\ fetched = \h6C
    /\ Memory_read(memory, \h8001) = \hFF /\ Memory_read(memory, \h8002) = \h02
    /\ cpu.pc = Memory_read(memory, \h0200) * 256 + Memory_read(memory, \h02FF)
    /\ Memory_read(memory, \h0200) # Memory_read(memory, \h0300)

\* C20: from every non-halted state, for every opcode byte at PC, step
\* either raises UnknownOpcode or moves to a state whose PC differs from the
\* old PC; the only exceptions are a taken branch whose target is itself, a
\* JMP whose target is itself, and an instruction that halts.
C20_StepMovesPc ==
    [][(lastOp' = "step" /\ ~cpu.halted)
          => LET opcode == Memory_read(memory, cpu.pc)
                 branches == {\h90, \hB0, \hF0, \hD0, \h30, \h10, \h50, \h70}
                 jumps == {\h4C, \h6C}
             IN  \/ panicked' /\ opcode \notin Opcodes
                 \/ ~panicked' /\ cpu'.pc # cpu.pc
                 \/ ~panicked' /\ cpu'.pc = cpu.pc /\ opcode \in branches \cup jumps
                 \/ ~panicked' /\ cpu'.halted]_vars

\* C25: the unused status bit U (0x20) reads 1 in every state reachable from
\* CPU::new or reset through step calls: new and reset set it and no
\* instruction clears it; no instruction sets or clears the B bit (0x10).
C25_UnusedAndBreakBits ==
    [][(lastOp' = "step")
          => /\ (cpu'.status \div 32) % 2 = (cpu.status \div 32) % 2
             /\ (cpu'.status \div 16) % 2 = (cpu.status \div 16) % 2
             /\ (CPU_new.status \div 16) % 4 = 2
             /\ (CPU_reset(cpu', memory').status \div 16) % 4 = 2]_vars

\* BRK executed with B clear: the core is halted, U is set and B still clear.
C25_Witness ==
    /\ lastOp = "step" /\ fetched = \h00 /\ cpu.halted
    /\ get_flag(cpu.status, UNUSED_FLAG) /\ ~get_flag(cpu.status, BREAK_COMMAND)

\* C27: for the (zp,X) and (zp),Y modes the second byte of the zero-page
\* pointer is read from (ptr + 1) mod 256: with the pointer at 0xFF the high
\* byte of the address comes from 0x0000, never from 0x0100, for LDA, STA,
\* ADC, SBC, CMP, AND, ORA and EOR alike.
C27_ZeroPagePointerWraps ==
    [][LET opcode == Memory_read(memory, cpu.pc)
           indexed_indirect == {\hA1, \h81, \h61, \hE1, \hC1, \h21, \h01, \h41}
           indirect_indexed == {\hB1, \h91, \h71, \hF1, \hD1, \h31, \h11, \h51}
           ptr == IF opcode \in indexed_indirect THEN (operand1 + cpu.x) % 256 ELSE operand1
           base == Memory_read(memory, (ptr + 1) % 256) * 256 + Memory_read(memory, ptr)
           address == IF opcode \in indexed_indirect THEN base ELSE (base + cpu.y) % 65536
           M == Memory_read(memory, address)
       IN  (lastOp' = "step" /\ ~cpu.halted /\ opcode \in indexed_indirect \cup indirect_indexed)
              => /\ ~panicked'
                 /\ opcode \in {\hA1, \hB1} => cpu'.a = M
                 /\ opcode \in {\h81, \h91} => memory' = Memory_write(memory, address, cpu.a)
                 /\ opcode \in {\h61, \h71} => cpu'.a = adc(cpu, M).a
                 /\ opcode \in {\hE1, \hF1} => cpu'.a = sbc(cpu, M).a
                 /\ opcode \in {\hC1, \hD1} => cpu'.status = compare(cpu, cpu.a, M).status
                 /\ opcode \in {\h21, \h31} => cpu'.a = bit_and(cpu.a, M)
                 /\ opcode \in {\h01, \h11} => cpu'.a = bit_or(cpu.a, M)
                 /\ opcode \in {\h41, \h51} => cpu'.a = bit_xor(cpu.a, M)]_vars

\* C30: a store changes no flag: for every STA addressing mode and every
\* prior state the step leaves P, A, X, Y and SP as they were and writes
\* the value of A to exactly one memory cell, the effective address of the
\* mode.
C30_StoreChangesNoFlag ==
    [][LET opcode == Memory_read(memory, cpu.pc)
           word == operand2 * 256 + operand1
           pointer == IF opcode = \h81 THEN (operand1 + cpu.x) % 256 ELSE operand1
           base == Memory_read(memory, (pointer + 1) % 256) * 256
                   + Memory_read(memory, pointer)
           address == CASE opcode = \h85 -> operand1
                        [] opcode = \h95 -> (operand1 + cpu.x) % 256
                        [] opcode = \h8D -> word
                        [] opcode = \h9D -> (word + cpu.x) % 65536
                        [] opcode = \h99 -> (word + cpu.y) % 65536
                        [] opcode = \h81 -> base
                        [] opcode = \h91 -> (base + cpu.y) % 65536
                        [] OTHER -> 0
       IN  (/\ lastOp' = "step" /\ ~cpu.halted
            /\ opcode \in {\h85, \h95, \h8D, \h9D, \h99, \h81, \h91})
              => /\ ~panicked'
                 /\ cpu'.status = cpu.status
                 /\ cpu'.a = cpu.a /\ cpu'.x = cpu.x /\ cpu'.y = cpu.y
                 /\ cpu'.sp = cpu.sp
                 /\ memory' = Memory_write(memory, address, cpu.a)]_vars

\* C31: a step that executes BRK sets halted and leaves PC one past the
\* opcode; apart from the cycle counter nothing else changes: SP and P (B
\* and I included) are as before, no memory cell is written (nothing is
\* pushed) and PC is not taken from the vector at 0xFFFE.
C31_BrkHaltsOnly ==
    [][(lastOp' = "step" /\ ~cpu.halted /\ Memory_read(memory, cpu.pc) = \h00)
          => /\ ~panicked'
             /\ cpu'.halted
             /\ cpu'.pc = (cpu.pc + 1) % 65536
             /\ cpu'.sp = cpu.sp /\ cpu'.status = cpu.status
             /\ cpu'.a = cpu.a /\ cpu'.x = cpu.x /\ cpu'.y = cpu.y
             /\ memory' = memory]_vars

C31_Witness ==
    /\ lastOp = "step" /\ fetched = \h00 /\ cpu.halted
    /\ cpu.pc = \h8001 /\ cpu.sp = \hFD /\ cpu.status = \hF7
    /\ Memory_read(memory, \h01FE) = \hFF

\* C40: only STA, INC, DEC and JSR write memory.  A step that executes any
\* other recognised opcode leaves every memory cell as it was; a step that
\* executes STA, INC or DEC changes at most one cell; a step that executes
\* JSR changes at most the two stack cells it pushes to.
C40_OnlyStoresWrite ==
    [][LET opcode == Memory_read(memory, cpu.pc)
           changed == {ad \in (DOMAIN memory) \cup (DOMAIN memory') :
                          Memory_read(memory', ad) # Memory_read(memory, ad)}
       IN  (lastOp' = "step" /\ ~cpu.halted /\ opcode \in Opcodes)
              => CASE opcode \in {\h85, \h95, \h8D, \h9D, \h99, \h81, \h91,
                                  \hE6, \hF6, \hEE, \hFE, \hC6, \hD6, \hCE, \hDE}
                          -> Cardinality(changed) <= 1
                   [] opcode = \h20
                          -> changed \subseteq {256 + cpu.sp, 256 + ((cpu.sp - 1) % 256)}
                   [] OTHER -> changed = {}]_vars

\* A JSR at 0x8000 with SP = 0xFD has written its return address 0x8002 to
\* 0x01FD and 0x01FC, two cells that held 0.
C40_Witness ==
    /\ lastOp = "step"
    /\ fetched = \h20
    /\ cpu.sp = \hFB
    /\ Memory_read(memory, \h01FD) = \h80
    /\ Memory_read(memory, \h01FC) = \h02

----------------------------------------------------------------------------
(* Properties: ADC and SBC over every A, M and carry (SpecArith) *)

\* C12: for every A, M in 0..255 and carry-in C, ADC computes r = A + M + C
\* and leaves A = r mod 256, C = (r > 255), V set exactly when the sign of r
\* differs from the sign of the old A and from the sign of M, Z = (A = 0),
\* N = bit 7 of A; the decimal flag changes nothing and is not changed.
C12_AdcResult ==
    [][(lastOp' = "step" /\ Memory_read(memory, cpu.pc) = \h69)
          => LET r == cpu.a + operand1 + (cpu.status % 2)
                 r8 == r % 256
                 p == cpu'.status
             IN  /\ ~panicked'
                 /\ cpu'.a = r8
                 /\ (p % 2 = 1) <=> (r > 255)
                 /\ ((p \div 64) % 2 = 1)
                      <=> (((cpu.a >= 128) # (r8 >= 128)) /\ ((operand1 >= 128) # (r8 >= 128)))
                 /\ ((p \div 2) % 2 = 1) <=> (r8 = 0)
                 /\ (p \div 128 = 1) <=> (r8 >= 128)
                 /\ (p \div 4) % 16 = (cpu.status \div 4) % 16]_vars

\* 0x50 + 0x30 with the decimal flag set: A = 0x80, V set, C clear.
C12_Witness ==
    /\ lastOp = "step" /\ fetched = \h69
    /\ cpu.x = (\h50 + 85) % 256 /\ Memory_read(memory, \h8001) = \h30
    /\ cpu.a = \h80
    /\ get_flag(cpu.status, DECIMAL_MODE)
    /\ get_flag(cpu.status, OVERFLOW_FLAG) /\ ~get_flag(cpu.status, CARRY_FLAG)

\* C13: for every A, M in 0..255 and carry-in C, SBC computes the signed
\* r = A - M - (1 - C) and leaves A = r mod 256, C = (r >= 0), V set exactly
\* when the old A differs in sign from M and from r, Z = (A = 0), N = bit 7 of A.
C13_SbcResult ==
    [][(lastOp' = "step" /\ Memory_read(memory, cpu.pc) = \hE9)
          => LET r == cpu.a - operand1 - (1 - (cpu.status % 2))
                 r8 == r % 256
                 p == cpu'.status
             IN  /\ ~panicked'
                 /\ cpu'.a = r8
                 /\ (p % 2 = 1) <=> (r >= 0)
                 /\ ((p \div 64) % 2 = 1)
                      <=> (((cpu.a >= 128) # (operand1 >= 128)) /\ ((cpu.a >= 128) # (r8 >= 128)))
                 /\ ((p \div 2) % 2 = 1) <=> (r8 = 0)
                 /\ (p \div 128 = 1) <=> (r8 >= 128)]_vars

\* 0x00 - 0x01 with the carry clear: r = -2, A = 0xFE, C clear, N set.
C13_Witness ==
    /\ lastOp = "step" /\ fetched = \hE9
    /\ cpu.x = 85 /\ Memory_read(memory, \h8001) = \h01
    /\ cpu.a = \hFE
    /\ ~get_flag(cpu.status, CARRY_FLAG) /\ get_flag(cpu.status, NEGATIVE_FLAG)
    /\ ~get_flag(cpu.status, OVERFLOW_FLAG)

\* The flags C, Z, V, N of a status byte.
arithmetic_flags(status) ==
    <<get_flag(status, CARRY_FLAG), get_flag(status, ZERO_FLAG),
      get_flag(status, OVERFLOW_FLAG), get_flag(status, NEGATIVE_FLAG)>>

\* C14: ADC is commutative: executing ADC with A = a and operand m leaves the
\* same A and the same C, V, Z, N as executing ADC with A = m and operand a
\* under the same carry-in.
C14_AdcCommutes ==
    [][(lastOp' = "step" /\ Memory_read(memory, cpu.pc) = \h69)
          => \E swapped \in {step([cpu EXCEPT !.a = operand1],
                                  instruction_at_8000(<<\h69, cpu.a>>))} :
                 /\ ~swapped.panic /\ ~panicked'
                 /\ swapped.cpu.a = cpu'.a
                 /\ arithmetic_flags(swapped.cpu.status) = arithmetic_flags(cpu'.status)]_vars

\* 0x7F + 0x01 (and so 0x01 + 0x7F): A = 0x80 with V set.
C14_Witness ==
    /\ lastOp = "step" /\ fetched = \h69
    /\ cpu.x = (\h7F + 85) % 256 /\ Memory_read(memory, \h8001) = \h01
    /\ cpu.a = \h80 /\ get_flag(cpu.status, OVERFLOW_FLAG)
    /\ ~get_flag(cpu.status, DECIMAL_MODE)

----------------------------------------------------------------------------
(* Properties: CMP, CPX, CPY over every register value and operand (SpecCompare) *)

\* C15: for every register value reg and operand M in 0..255, CMP, CPX and
\* CPY leave A, X, Y and memory unchanged and set C = (reg >= M),
\* Z = (reg = M), N = bit 7 of (reg - M) mod 256; V, I, D, B, U are untouched.
C15_CompareResult ==
    [][(lastOp' = "step" /\ Memory_read(memory, cpu.pc) \in {\hC9, \hE0, \hC0})
          => LET opcode == Memory_read(memory, cpu.pc)
                 reg == CASE opcode = \hC9 -> cpu.a
                          [] opcode = \hE0 -> cpu.x
                          [] OTHER -> cpu.y
                 p == cpu'.status
             IN  /\ ~panicked'
                 /\ cpu'.a = cpu.a /\ cpu'.x = cpu.x /\ cpu'.y = cpu.y
                 /\ memory' = memory
                 /\ (p % 2 = 1) <=> (reg >= operand1)
                 /\ ((p \div 2) % 2 = 1) <=> (reg = operand1)
                 /\ (p \div 128 = 1) <=> ((reg - operand1) % 256 >= 128)
                 /\ (p \div 4) % 32 = (cpu.status \div 4) % 32]_vars

\* CPX #$10 with X = 0x10: equal, so C and Z set, N clear, X still 0x10.
C15_Witness ==
    /\ lastOp = "step" /\ fetched = \hE0
    /\ cpu.x = \h10 /\ Memory_read(memory, \h8001) = \h10
    /\ get_flag(cpu.status, CARRY_FLAG) /\ get_flag(cpu.status, ZERO_FLAG)
    /\ ~get_flag(cpu.status, NEGATIVE_FLAG)

----------------------------------------------------------------------------
(* Properties: the stack (SpecCall, SpecStack) *)

C18_StackDiscipline ==
    [][LET n == Len(stack_log')
           call == stack_log'[n]
           written == (DOMAIN memory') \ (DOMAIN memory)
           kept == {ad \in DOMAIN memory : Memory_read(memory', ad) = memory[ad]}
           changed == written \cup ((DOMAIN memory) \ kept)
       IN  (n = Len(stack_log) + 1)
              => /\ call.op = "push"
                    => /\ Memory_read(memory', \h0100 + cpu.sp) = call.value
                       /\ changed \subseteq {\h0100 + cpu.sp}
                       /\ cpu'.sp = (cpu.sp - 1) % 256
                 /\ call.op = "pop"
                    => /\ cpu'.sp = (cpu.sp + 1) % 256
                       /\ call.value = Memory_read(memory, \h0100 + cpu'.sp)
                       /\ changed = {}
                 /\ (call.op = "pop" /\ n > 1 /\ stack_log'[n - 1].op = "push")
                    => /\ call.value = stack_log'[n - 1].value
                       /\ cpu'.sp = stack_log'[n - 1].sp
                 /\ changed \subseteq \h0100..\h01FF]_vars

\* push(0x42) at SP = 0x00 wrote 0x0100 and left SP = 0xFF; the pop that
\* followed returned 0x42 and left SP = 0x00.
C18_Witness ==
    /\ stack_log = <<[op |-> "push", value |-> \h42, sp |-> \h00],
                     [op |-> "pop", value |-> \h42, sp |-> \hFF]>>
    /\ cpu.sp = \h00
    /\ Memory_read(memory, \h0100) = \h42

----------------------------------------------------------------------------
(* Properties: the Emulator's host API (SpecEmulator) *)

\* C21: execute_steps(budget) executes instructions until the CPU is halted
\* or budget instructions have run: steps_executed is at most budget, is
\* less than budget only if the CPU is halted on return, the reported halted
\* flag is the CPU's halted latch, and the core state is the one that
\* steps_executed calls of step produce from the starting state.  A batch
\* that does not return ended in the panic of one of those calls.
C21_ExecuteStepsIsSteps ==
    [][(lastOp' = "execute")
          => IF execution'.returned
             THEN \E singly \in {step_n(Res(cpu, memory), execution'.steps_executed)} :
                      /\ execution'.steps_executed <= execution'.steps
                      /\ execution'.steps_executed < execution'.steps => cpu'.halted
                      /\ execution'.halted = cpu'.halted
                      /\ ~singly.panic /\ ~panicked'
                      /\ cpu' = singly.cpu /\ memory' = singly.memory
             ELSE \E k \in 1..execution'.steps :
                      \E singly \in {step_n(Res(cpu, memory), k)} :
                          /\ singly.panic /\ panicked'
                          /\ cpu' = singly.cpu /\ memory' = singly.memory]_vars

\* lda_sta run with a budget of 3 from reset: three instructions ran, not halted.
C21_Witness ==
    /\ lastOp = "execute"
    /\ execution = [call |-> "execute_steps", steps |-> 3, returned |-> TRUE,
                    steps_executed |-> 3, halted |-> FALSE]
    /\ cpu.pc = \h8006 /\ cpu.x = \hFF /\ cpu.cycles = 3
    /\ Memory_read(memory, \h0200) = \hFF

\* C23: Memory::load_rom(bytes, start) copies bytes[i] to start + i for every
\* i with start + i <= 0xFFFF, drops the remaining bytes without wrapping to
\* address 0, never fails, and leaves every address below start and every
\* address at or above start + len(bytes) unchanged.
C23_LoadRomTruncates ==
    [][(lastOp' = "load_rom")
          => LET start == execution'.address
                 bytes == execution'.data
             IN  /\ ~panicked'
                 /\ \A i \in 0..(Len(bytes) - 1) :
                        start + i <= \hFFFF => Memory_read(memory', start + i) = bytes[i + 1]
                 /\ \A ad \in (DOMAIN memory) \cup (DOMAIN memory') \cup {0, 1} :
                        (ad < start \/ ad >= start + Len(bytes))
                           => Memory_read(memory', ad) = Memory_read(memory, ad)
                 /\ cpu' = cpu]_vars

\* A9 01 EA loaded at 0xFFFF over the jsr_rts program: 0xFFFF holds A9, the
\* addresses 0 and 1 hold no byte of it, the vector's low byte is still there.
C23_Witness ==
    /\ lastOp = "load_rom"
    /\ execution = [call |-> "load_rom", address |-> \hFFFF, data |-> <<\hA9, \h01, \hEA>>]
    /\ Memory_read(memory, \hFFFF) = \hA9
    /\ Memory_read(memory, \h0000) = 0 /\ Memory_read(memory, \h0001) = 0
    /\ Memory_read(memory, \h9000) = \h60 /\ Memory_read(memory, \hFFFD) = \h80

\* C24: Emulator::load_program(start, bytes) is a bulk write with 64 KiB
\* truncation: when start + len(bytes) > 65536 it writes the bytes that fit
\* up to 0xFFFF and discards the rest; it neither fails nor writes at
\* wrapped-around low addresses.
C24_LoadProgramTruncates ==
    [][(lastOp' = "load_program")
          => LET start == execution'.address
                 bytes == execution'.data
             IN  /\ ~panicked'
                 /\ \A i \in 0..(Len(bytes) - 1) :
                        start + i <= \hFFFF => Memory_read(memory', start + i) = bytes[i + 1]
                 /\ \A ad \in (DOMAIN memory) \cup (DOMAIN memory') \cup {0, 1} :
                        (ad < start \/ ad >= start + Len(bytes))
                           => Memory_read(memory', ad) = Memory_read(memory, ad)]_vars

\* C39: the host wrapper's cycle counter never leaves the CPU's.  In every
\* state reached from Emulator::new by Emulator::reset, Emulator::step and
\* Emulator::execute_steps (and by loading memory, which counts nothing),
\* Emulator.cycles equals cpu.cycles; get_state reports Emulator.cycles.
C39_CountersAgree ==
    emulator_cycles = cpu.cycles

\* A batch has run two instructions, the second of which halted the CPU, and
\* both counters stand at two.
C39_Witness ==
    /\ lastOp = "execute"
    /\ ~panicked
    /\ cpu.halted
    /\ execution.steps_executed = 2
    /\ emulator_cycles = 2
    /\ cpu.cycles = 2

----------------------------------------------------------------------------
(* Properties: the CPU over whole programs (SpecCpu) *)

\* C22: cycles counts executed instructions: every step taken while not
\* halted, the step that executes BRK included, raises cycles by exactly 1;
\* a step taken while halted leaves it unchanged; cycles never decreases
\* except that reset sets it back to 0.
C22_CyclesCountInstructions ==
    [][/\ (lastOp' = "step" /\ ~cpu.halted /\ ~panicked') => cpu'.cycles = cpu.cycles + 1
       /\ (lastOp' = "step" /\ cpu.halted) => cpu'.cycles = cpu.cycles
       /\ (lastOp' # "reset") => cpu'.cycles >= cpu.cycles
       /\ (lastOp' = "reset") => cpu'.cycles = 0]_vars

\* BRK was the first instruction after reset and a second step found the
\* core halted: cycles is 1.
C22_Witness ==
    /\ lastOp = "step" /\ fetched = -1
    /\ cpu.halted /\ cpu.cycles = 1 /\ cpu.pc = \h8001
    /\ Memory_read(memory, \h8000) = \h00

\* C32 as stated: with the reset vector at 0x8000 and JSR $9000 at 0x8000,
\* the JSR step taken after reset (SP0 the stack pointer after reset) ends
\* with PC = 0x9000 and SP = SP0 - 2, the byte at 0x0100 | (SP + 1) being
\* 0x80 and the byte at 0x0100 | (SP + 2) being 0x02.
C32_JsrScenarioAsStated ==
    [][(/\ lastOp = "reset" /\ lastOp' = "step"
        /\ cpu.pc = \h8000 /\ Memory_read_u16(memory, \hFFFC) = \h8000
        /\ Memory_read(memory, \h8000) = \h20
        /\ Memory_read_u16(memory, \h8001) = \h9000)
          => /\ cpu'.pc = \h9000
             /\ cpu'.sp = (cpu.sp - 2) % 256
             /\ Memory_read(memory', 256 + ((cpu'.sp + 1) % 256)) = \h80
             /\ Memory_read(memory', 256 + ((cpu'.sp + 2) % 256)) = \h02]_vars

\* C32, amended: in that scenario the JSR step ends with PC = 0x9000 and
\* SP = SP0 - 2, the byte at 0x0100 | (SP + 1) being 0x02, the low byte of
\* the pushed address 0x8002, and the byte at 0x0100 | (SP + 2) being 0x80,
\* its high byte.
C32_JsrScenario ==
    [][(/\ lastOp = "reset" /\ lastOp' = "step"
        /\ cpu.pc = \h8000 /\ Memory_read_u16(memory, \hFFFC) = \h8000
        /\ Memory_read(memory, \h8000) = \h20
        /\ Memory_read_u16(memory, \h8001) = \h9000)
          => /\ ~panicked'
             /\ cpu'.pc = \h9000
             /\ cpu'.sp = (cpu.sp - 2) % 256
             /\ Memory_read(memory', 256 + ((cpu'.sp + 1) % 256)) = \h02
             /\ Memory_read(memory', 256 + ((cpu'.sp + 2) % 256)) = \h80]_vars

C32_Witness ==
    /\ lastOp = "step" /\ fetched = \h20 /\ cpu.cycles = 1
    /\ cpu.pc = \h9000 /\ cpu.sp = \hFB
    /\ Memory_read(memory, \h01FC) = \h02 /\ Memory_read(memory, \h01FD) = \h80
    /\ Memory_read(memory, \h9000) = \h60

----------------------------------------------------------------------------
(* Properties: operands at the edges of their range (SpecEdge) *)

\* C28: for every branch opcode and every operand byte d, 0x80 included,
\* the step leaves PC at the address after the operand plus the sign-extended
\* d (mod 65536) when the branch condition holds and at the address after
\* the operand when it does not; no other register, no flag and no memory
\* cell changes.
C28_BranchTarget ==
    [][LET opcode == Memory_read(memory, cpu.pc)
           after == (cpu.pc + 2) % 65536
           displacement == IF operand1 >= 128 THEN operand1 - 256 ELSE operand1
           taken == CASE opcode = \h90 -> ~get_flag(cpu.status, CARRY_FLAG)
                      [] opcode = \hB0 -> get_flag(cpu.status, CARRY_FLAG)
                      [] opcode = \hF0 -> get_flag(cpu.status, ZERO_FLAG)
                      [] opcode = \hD0 -> ~get_flag(cpu.status, ZERO_FLAG)
                      [] opcode = \h30 -> get_flag(cpu.status, NEGATIVE_FLAG)
                      [] opcode = \h10 -> ~get_flag(cpu.status, NEGATIVE_FLAG)
                      [] opcode = \h50 -> ~get_flag(cpu.status, OVERFLOW_FLAG)
                      [] opcode = \h70 -> get_flag(cpu.status, OVERFLOW_FLAG)
                      [] OTHER -> FALSE
       IN  (/\ lastOp' = "step" /\ ~cpu.halted
            /\ opcode \in {\h90, \hB0, \hF0, \hD0, \h30, \h10, \h50, \h70})
              => /\ ~panicked'
                 /\ cpu'.pc = IF taken THEN (after + displacement) % 65536 ELSE after
                 /\ cpu' = [cpu EXCEPT !.pc = cpu'.pc, !.cycles = cpu'.cycles]
                 /\ memory' = memory]_vars

\* C29: an instruction with a two-byte operand whose opcode is at 0xFFFE
\* completes without a panic, takes the operand's low byte from 0xFFFF and
\* its high byte from 0x0000, and leaves PC advanced modulo 65536 (at the
\* target, for JMP and JSR).
C29_OperandFetchWraps ==
    [][LET opcode == Memory_read(memory, cpu.pc)
           word == Memory_read(memory, \h0000) * 256 + Memory_read(memory, \hFFFF)
           jumps == {\h4C, \h6C, \h20}
           two_byte == jumps \cup
               {\hAD, \hBD, \hB9, \hAE, \hBE, \hAC, \hBC, \h8D, \h9D, \h99,
                \h6D, \h7D, \h79, \hED, \hFD, \hF9, \hCD, \hDD, \hD9, \hEC, \hCC,
                \h2D, \h3D, \h39, \h0D, \h1D, \h19, \h4D, \h5D, \h59,
                \hEE, \hFE, \hCE, \hDE}
       IN  (lastOp' = "step" /\ ~cpu.halted /\ cpu.pc = \hFFFE /\ opcode \in two_byte)
              => /\ ~panicked'
                 /\ opcode \notin jumps => cpu'.pc = \h0001
                 /\ opcode \in {\h4C, \h20} => cpu'.pc = word
                 /\ opcode = \h6C =>
                        cpu'.pc = Memory_read(memory, IF word % 256 = 255 THEN word - 255
                                                      ELSE word + 1) * 256
                                  + Memory_read(memory, word)
                 /\ opcode = \hAD => cpu'.a = Memory_read(memory, word)
                 /\ opcode = \hBD => cpu'.a = Memory_read(memory, (word + cpu.x) % 65536)
                 /\ opcode = \hB9 => cpu'.a = Memory_read(memory, (word + cpu.y) % 65536)
                 /\ opcode = \h8D => memory' = Memory_write(memory, word, cpu.a)]_vars

----------------------------------------------------------------------------
(* Properties: concurrent requests on the shared emulator map (SpecServer) *)

\* C26: under concurrent step, execute, write-memory and load-program
\* requests a snapshot is only taken between instructions: while the
\* snapshot handler reads the emulator no step is in flight, and the
\* registers and the memory image of every stored snapshot are those of one
\* and the same state the emulator had at an instruction boundary.
C26_SnapshotAtBoundary ==
    /\ server.at["create_snapshot"] \in {"locked", "state_read", "dump_read"}
          => \A r \in {"step", "execute"} : server.at[r] # "decoding"
    /\ \A s \in server.snapshots :
          \E b \in server.boundaries :
              /\ s.cpu_state = b.cpu
              /\ s.memory_dump = b.memory

\* A snapshot taken between the step request and the execute request, both
\* served.
C26_Witness ==
    /\ server.at["step"] = "done" /\ server.at["execute"] = "done"
    /\ cpu.cycles = 3
    /\ \E s \in server.snapshots : s.cpu_state.cycles = 1 /\ s.cpu_state.a = \hFF

\* C35: when the host's restore of a stored snapshot reports success, the
\* target emulator's A, X, Y, PC, SP, P, cycles, halted bit and all its
\* memory cells equal the values recorded in that snapshot, whatever the
\* emulator executed between the snapshot and the restore.
C35_RestoreReportsTruth ==
    [][(/\ server.at["restore_snapshot"] # "done"
        /\ server'.at["restore_snapshot"] = "done"
        /\ server'.response["restore_snapshot"].status = 200)
          => /\ cpu' = server'.response["restore_snapshot"].snapshot.cpu_state
             /\ memory' = server'.response["restore_snapshot"].snapshot.memory_dump]_vars

\* C36: no interleaving of the handlers deadlocks: there is no reachable
\* state in which two handlers each hold one of the locks (emulator map,
\* snapshot store, template store) and wait for the lock the other holds.
C36_NoDeadlock ==
    LET held == [l \in {"emulators", "store", "templates"} |->
                    CASE l = "emulators" -> server.lock
                      [] l = "store" -> server.store_lock
                      [] l = "templates" -> server.templates_lock]
        waits(r) ==
            CASE server.at[r] = "start" ->
                     (CASE r = "restore_snapshot" -> "store"
                        [] r = "create_instance" -> "templates"
                        [] OTHER -> "emulators")
              [] r = "create_snapshot" /\ server.at[r] = "dump_read" -> "store"
              [] r = "restore_snapshot" /\ server.at[r] = "store_locked"
                     /\ server.snapshots # {} -> "emulators"
              [] r = "create_instance" /\ server.at[r] = "templates_locked" -> "emulators"
              [] OTHER -> "none"
    IN  ~\E r1, r2 \in DOMAIN server.at :
            /\ r1 # r2
            /\ waits(r1) # "none" /\ waits(r2) # "none"
            /\ held[waits(r1)] = r2
            /\ held[waits(r2)] = r1

\* C37: a failure while stepping one emulator does not disable the others:
\* after a step or execute request on the first emulator has hit an unknown
\* opcode, a request on the second emulator of the map is still served and
\* the second emulator is as it was.
C37_FailureIsolated ==
    (\E r \in {"step", "execute"} :
         /\ server.at[r] = "panicked"
         /\ server.opcode[r] \in U8 \ Opcodes)
        => /\ server.at["get_state"] # "panicked"
           /\ cpu2 = CPU_new /\ memory2 = Memory_new

----------------------------------------------------------------------------
(* Properties: 16-bit words in memory (SpecWord) *)

\* C34: write_u16 and read_u16 are little-endian and wrap on the 16-bit
\* address: write_u16(a, v) stores the low byte of v at a and the high byte
\* at (a + 1) mod 65536 and changes no other cell; read_u16(a) combines the
\* bytes at a and (a + 1) mod 65536; read_u16(a) right after write_u16(a, v)
\* returns v, for a = 0xFFFF as for any other address.
C34_WordsLittleEndianWrapping ==
    [][LET a == execution'.address
           next == (a + 1) % 65536
       IN  /\ (lastOp' = "write_u16")
                => /\ Memory_read(memory', a) = execution'.value % 256
                   /\ Memory_read(memory', next) = execution'.value \div 256
                   /\ \A other \in (DOMAIN memory \cup DOMAIN memory') \ {a, next} :
                          Memory_read(memory', other) = Memory_read(memory, other)
           /\ (lastOp' = "read_u16")
                => /\ execution'.returned
                          = Memory_read(memory, next) * 256 + Memory_read(memory, a)
                   /\ memory' = memory
           /\ (lastOp = "write_u16" /\ lastOp' = "read_u16" /\ a = execution.address)
                => execution'.returned = execution.value]_vars

\* 0x1234 written at 0xFFFF over a loaded program has been read back: its
\* high byte is in cell 0x0000.
C34_Witness ==
    /\ lastOp = "read_u16"
    /\ execution.address = \hFFFF /\ execution.returned = \h1234
    /\ Memory_read(memory, \hFFFF) = \h34 /\ Memory_read(memory, \h0000) = \h12
    /\ Memory_read(memory, \h8000) = \hA9 /\ Memory_read(memory, \hFFFD) = \h80

====
